---- MODULE Spec2Model ----
(***************************************************************************)
(* A model of the state-transition graph store of networkx_graph:          *)
(* StateGraph (state_graph.py), which wraps a networkx DiGraph, and the     *)
(* tool calls of GraphMCPServer._call_tool (server.py) that drive it.       *)
(*                                                                         *)
(* Python values are modelled as follows.                                  *)
(*   None / omitted argument : the empty tuple  None == << >>               *)
(*   a given argument v      : the one-element tuple  << v >>               *)
(*   dict                    : a function on the set of its keys            *)
(*   insertion-ordered dict  : the sequence of its keys plus a function     *)
(*   raise ValueError(msg)   : a result whose status names the kind of      *)
(*                             message (AlreadyExists, NotFound,            *)
(*                             InvalidArgument)                             *)
(***************************************************************************)
EXTENDS Integers, Sequences, FiniteSets, TLC

VARIABLES graph, prev, last, graphs, prev_graphs, threads, lock, locks, files, server, export

vars == <<graph, prev, last, graphs, prev_graphs, threads, lock, locks, files, server, export>>

---------------------------------------------------------------------------
(* Python values *)

None == << >>

Some(v) == <<v>>

EmptyDict == [k \in {} |-> 0]

\* d.update(e): the keys of e take e's values, the other keys of d stay
DictUpdate(d, e) ==
  [k \in (DOMAIN d) \cup (DOMAIN e) |-> IF k \in DOMAIN e THEN e[k] ELSE d[k]]

\* del d[key]
DictDel(d, key) == [k \in (DOMAIN d) \ {key} |-> d[k]]

\* d with d[key] = v
DictSet(d, key, v) ==
  [k \in (DOMAIN d) \cup {key} |-> IF k = key THEN v ELSE d[k]]

\* the keys of an insertion-ordered dict as a set
SeqToSet(s) == {s[i] : i \in DOMAIN s}

SeqRemove(s, x) == SelectSeq(s, LAMBDA y : y # x)

\* d[key] = ... on an insertion-ordered dict: a new key goes last, an
\* existing key keeps its place
KeyInsert(s, x) == IF x \in SeqToSet(s) THEN s ELSE Append(s, x)

---------------------------------------------------------------------------
(* networkx.DiGraph, as far as StateGraph uses it.  A graph is a record    *)
(*   keys  : the node ids in insertion order (the key order of G._node)    *)
(*   node  : node id -> attribute dict            (G._node)                *)
(*   succ  : node id -> successor ids in insertion order  (G._succ)        *)
(*   pred  : node id -> predecessor ids in insertion order (G._pred)       *)
(*   edata : <<u, v>> -> attribute dict, the one dict that G._succ[u][v]   *)
(*           and G._pred[v][u] share                                       *)

\* nx.DiGraph()
EmptyGraph ==
  [keys |-> << >>, node |-> EmptyDict, succ |-> EmptyDict,
   pred |-> EmptyDict, edata |-> EmptyDict]

\* node_id in self.graph
HasNode(g, n) == n \in DOMAIN g.node

\* self.graph.has_edge(u, v)
has_edge(g, u, v) == <<u, v>> \in DOMAIN g.edata

\* self.graph.edges(): the pairs (u, v) with v a successor of u
Edges(g) == UNION {{<<u, g.succ[u][i]>> : i \in DOMAIN g.succ[u]} : u \in DOMAIN g.succ}

number_of_nodes(g) == Cardinality(DOMAIN g.node)

number_of_edges(g) == Cardinality(Edges(g))

\* self.graph.add_node(node_id, **node_attrs), for a node id not in the graph
nx_add_node(g, n, attrs) ==
  [g EXCEPT !.keys = Append(g.keys, n),
            !.node = DictSet(g.node, n, attrs),
            !.succ = DictSet(g.succ, n, << >>),
            !.pred = DictSet(g.pred, n, << >>)]

\* self.graph.add_edge(u, v, **edge_attrs), for u and v in the graph:
\* datadict = self._adj[u].get(v, {}); datadict.update(attr)
nx_add_edge(g, u, v, attrs) ==
  LET datadict == IF has_edge(g, u, v) THEN g.edata[<<u, v>>] ELSE EmptyDict
  IN  [g EXCEPT !.succ  = [g.succ EXCEPT ![u] = KeyInsert(@, v)],
                !.pred  = [g.pred EXCEPT ![v] = KeyInsert(@, u)],
                !.edata = DictSet(g.edata, <<u, v>>, DictUpdate(datadict, attrs))]

\* self.graph.remove_edge(u, v), for an edge of the graph
nx_remove_edge(g, u, v) ==
  [g EXCEPT !.succ  = [g.succ EXCEPT ![u] = SeqRemove(@, v)],
            !.pred  = [g.pred EXCEPT ![v] = SeqRemove(@, u)],
            !.edata = DictDel(g.edata, <<u, v>>)]

\* a removal that forgets the edges into and out of the node
nx_remove_node_no_cascade(g, n) ==
  [g EXCEPT !.keys = SeqRemove(g.keys, n),
            !.node = DictDel(g.node, n),
            !.succ = DictDel(g.succ, n),
            !.pred = DictDel(g.pred, n)]

\* a removal that takes the node's outgoing edges and forgets the incoming
nx_remove_node_out_only(g, n) ==
  LET rest == (DOMAIN g.node) \ {n}
  IN  [keys  |-> SeqRemove(g.keys, n),
       node  |-> DictDel(g.node, n),
       succ  |-> [u \in rest |-> g.succ[u]],
       pred  |-> [u \in rest |-> SeqRemove(g.pred[u], n)],
       edata |-> [e \in {d \in DOMAIN g.edata : d[1] # n} |-> g.edata[e]]]

\* self.graph.remove_node(n), for a node of the graph: the node, its
\* adjacency and every edge into or out of it go
nx_remove_node(g, n) ==
  LET rest == (DOMAIN g.node) \ {n}
  IN  [keys  |-> SeqRemove(g.keys, n),
       node  |-> DictDel(g.node, n),
       succ  |-> [u \in rest |-> SeqRemove(g.succ[u], n)],
       pred  |-> [u \in rest |-> SeqRemove(g.pred[u], n)],
       edata |-> [e \in {d \in DOMAIN g.edata : d[1] # n /\ d[2] # n}
                    |-> g.edata[e]]]

\* self.graph.in_edges(n), self.graph.out_edges(n): pairs in iteration order
in_edges(g, n)  == [i \in DOMAIN g.pred[n] |-> <<g.pred[n][i], n>>]

out_edges(g, n) == [i \in DOMAIN g.succ[n] |-> <<n, g.succ[n][i]>>]

---------------------------------------------------------------------------
(* The results of StateGraph's methods: the graph afterwards, a status     *)
(* ("ok" or the kind of ValueError raised) and the value returned.         *)

Ok(g, v) == [graph |-> g, status |-> "ok", value |-> v]

Raise(g, kind) == [graph |-> g, status |-> kind, value |-> None]

NodeTypes == {"action", "decision", "verification", "loop", "success", "failure"}

\* `label or node_id`: None and the empty string are falsy
LabelOr(label, node_id) ==
  IF label = None \/ label = Some("") THEN node_id ELSE label[1]

\* `properties or {}`: None and the empty dict are falsy
PropertiesOr(properties) ==
  IF properties = None THEN EmptyDict
  ELSE IF DOMAIN properties[1] = {} THEN EmptyDict ELSE properties[1]

\* node_attrs of add_node
NodeAttrs(node_id, node_type, label, phase, tool, properties) ==
  LET base == [node_type  |-> node_type,
               label      |-> LabelOr(label, node_id),
               properties |-> PropertiesOr(properties)]
      withPhase == IF phase # None THEN DictSet(base, "phase", phase[1]) ELSE base
  IN  IF tool # None THEN DictSet(withPhase, "tool", tool[1]) ELSE withPhase

\* add_node with its two checks in the other order
add_node_type_checked_first(g, node_id, node_type, label, phase, tool, properties) ==
  IF node_type \notin NodeTypes THEN Raise(g, "InvalidArgument")
  ELSE IF HasNode(g, node_id) THEN Raise(g, "AlreadyExists")
  ELSE Ok(nx_add_node(g, node_id,
                      NodeAttrs(node_id, node_type, label, phase, tool, properties)),
          [node_id |-> node_id, node_type |-> node_type, status |-> "added"])

add_node(g, node_id, node_type, label, phase, tool, properties) ==
  IF HasNode(g, node_id) THEN Raise(g, "AlreadyExists")
  ELSE IF node_type \notin NodeTypes THEN Raise(g, "InvalidArgument")
  ELSE Ok(nx_add_node(g, node_id,
                      NodeAttrs(node_id, node_type, label, phase, tool, properties)),
          [node_id |-> node_id, node_type |-> node_type, status |-> "added"])

\* an update that replaces the properties mapping by the one given
UpdatedAttrs_replace(d, label, phase, tool, properties) ==
  LET d1 == IF label # None THEN DictSet(d, "label", label[1]) ELSE d
      d2 == IF phase # None THEN DictSet(d1, "phase", phase[1]) ELSE d1
      d3 == IF tool # None THEN DictSet(d2, "tool", tool[1]) ELSE d2
  IN  IF properties # None THEN DictSet(d3, "properties", properties[1]) ELSE d3

\* an update that builds the attributes anew, as add_node does, and so drops
\* a phase or tool that the call does not give
UpdatedAttrs_rebuild(d, label, phase, tool, properties) ==
  LET base == [node_type  |-> d["node_type"],
               label      |-> IF label # None THEN label[1] ELSE d["label"],
               properties |-> IF properties # None
                              THEN DictUpdate(d["properties"], properties[1])
                              ELSE d["properties"]]
      withPhase == IF phase # None THEN DictSet(base, "phase", phase[1]) ELSE base
  IN  IF tool # None THEN DictSet(withPhase, "tool", tool[1]) ELSE withPhase

\* the attribute assignments of update_node, in the code's order
UpdatedAttrs(d, label, phase, tool, properties) ==
  LET d1 == IF label # None THEN DictSet(d, "label", label[1]) ELSE d
      d2 == IF phase # None THEN DictSet(d1, "phase", phase[1]) ELSE d1
      d3 == IF tool # None THEN DictSet(d2, "tool", tool[1]) ELSE d2
      existing_props == IF "properties" \in DOMAIN d3 THEN d3["properties"]
                        ELSE EmptyDict
  IN  IF properties # None
      THEN DictSet(d3, "properties", DictUpdate(existing_props, properties[1]))
      ELSE d3

update_node(g, node_id, label, phase, tool, properties) ==
  IF ~HasNode(g, node_id) THEN Raise(g, "NotFound")
  ELSE Ok([g EXCEPT !.node[node_id] = UpdatedAttrs(@, label, phase, tool, properties)],
          [node_id |-> node_id, status |-> "updated"])

remove_node(g, node_id) ==
  IF ~HasNode(g, node_id) THEN Raise(g, "NotFound")
  ELSE Ok(nx_remove_node(g, node_id), [node_id |-> node_id, status |-> "removed"])

\* edge_attrs of add_edge
EdgeAttrs(order, condition, properties) ==
  LET base == [order |-> order, properties |-> PropertiesOr(properties)]
  IN  IF condition # None THEN DictSet(base, "condition", condition[1]) ELSE base

\* add_edge without the check of the target node: networkx then creates the
\* missing target as a node with no attributes
add_edge_unchecked_target(g, from_node, to_node, order, condition, properties) ==
  IF ~HasNode(g, from_node) THEN Raise(g, "NotFound")
  ELSE Ok(nx_add_edge(IF HasNode(g, to_node) THEN g
                      ELSE nx_add_node(g, to_node, EmptyDict),
                      from_node, to_node, EdgeAttrs(order, condition, properties)),
          [from |-> from_node, to |-> to_node, status |-> "added"])

add_edge(g, from_node, to_node, order, condition, properties) ==
  IF ~HasNode(g, from_node) THEN Raise(g, "NotFound")
  ELSE IF ~HasNode(g, to_node) THEN Raise(g, "NotFound")
  ELSE Ok(nx_add_edge(g, from_node, to_node, EdgeAttrs(order, condition, properties)),
          [from |-> from_node, to |-> to_node, status |-> "added"])

remove_edge(g, from_node, to_node) ==
  IF ~has_edge(g, from_node, to_node) THEN Raise(g, "NotFound")
  ELSE Ok(nx_remove_edge(g, from_node, to_node),
          [from |-> from_node, to |-> to_node, status |-> "removed"])

\* a setter that writes through add_edge: between two nodes that are there
\* it makes the edge that is missing
set_edge_order_upsert(g, from_node, to_node, order) ==
  IF ~HasNode(g, from_node) \/ ~HasNode(g, to_node) THEN Raise(g, "NotFound")
  ELSE IF ~has_edge(g, from_node, to_node)
  THEN Raise(nx_add_edge(g, from_node, to_node, [order |-> order]), "NotFound")
  ELSE Ok([g EXCEPT !.edata[<<from_node, to_node>>] = DictSet(@, "order", order)],
          [from |-> from_node, to |-> to_node, order |-> order, status |-> "updated"])

set_edge_order(g, from_node, to_node, order) ==
  IF ~has_edge(g, from_node, to_node) THEN Raise(g, "NotFound")
  ELSE Ok([g EXCEPT !.edata[<<from_node, to_node>>] = DictSet(@, "order", order)],
          [from |-> from_node, to |-> to_node, order |-> order, status |-> "updated"])

\* a setter that stores the null instead of deleting the key
set_edge_condition_null_stored(g, from_node, to_node, condition) ==
  IF ~has_edge(g, from_node, to_node) THEN Raise(g, "NotFound")
  ELSE Ok([g EXCEPT !.edata[<<from_node, to_node>>] =
                      DictSet(@, "condition", IF condition = None THEN None
                                              ELSE condition[1])],
          [from |-> from_node, to |-> to_node, condition |-> condition,
           status |-> "updated"])

set_edge_condition(g, from_node, to_node, condition) ==
  IF ~has_edge(g, from_node, to_node) THEN Raise(g, "NotFound")
  ELSE Ok([g EXCEPT !.edata[<<from_node, to_node>>] =
                      IF condition = None THEN DictDel(@, "condition")
                      ELSE DictSet(@, "condition", condition[1])],
          [from |-> from_node, to |-> to_node, condition |-> condition,
           status |-> "updated"])

\* a get_node that puts the node_id key into the stored attributes
\* themselves and returns them
get_node_aliasing(g, node_id) ==
  IF ~HasNode(g, node_id) THEN Raise(g, "NotFound")
  ELSE Ok([g EXCEPT !.node[node_id] = DictSet(@, "node_id", node_id)],
          DictSet(g.node[node_id], "node_id", node_id))

get_node(g, node_id) ==
  IF ~HasNode(g, node_id) THEN Raise(g, "NotFound")
  ELSE Ok(g, g.node[node_id])

---------------------------------------------------------------------------
(* nx.shortest_path(G, source, target) with no weight: networkx's          *)
(* bidirectional breadth-first search (_bidirectional_pred_succ), which    *)
(* grows the smaller of a forward fringe from the source and a reverse     *)
(* fringe from the target one level at a time, and the path it builds      *)
(* from the two parent maps.  pred and succ map a reached node to its      *)
(* parent (None for the source and the target).                            *)

\* the (v, w) pairs that `for v in this_level: for w in adj[v]` visits, in order
RECURSIVE LevelPairs(_, _)
LevelPairs(this_level, adj) ==
  IF this_level = << >> THEN << >>
  ELSE LET v == Head(this_level)
       IN  [i \in DOMAIN adj[v] |-> <<v, adj[v][i]>>] \o LevelPairs(Tail(this_level), adj)

\* one forward level: a successor not seen from the source joins the fringe,
\* and the first successor the reverse search has reached ends the search
RECURSIVE ScanForward(_, _, _, _, _)
ScanForward(pairs, i, pred, succ, fringe) ==
  IF i > Len(pairs) THEN [found |-> None, pred |-> pred, succ |-> succ, fringe |-> fringe]
  ELSE LET v == pairs[i][1]
           w == pairs[i][2]
           new == w \notin DOMAIN pred
           pred1 == IF new THEN DictSet(pred, w, Some(v)) ELSE pred
           fringe1 == IF new THEN Append(fringe, w) ELSE fringe
       IN  IF w \in DOMAIN succ
           THEN [found |-> Some(w), pred |-> pred1, succ |-> succ, fringe |-> fringe1]
           ELSE ScanForward(pairs, i + 1, pred1, succ, fringe1)

\* one reverse level, over predecessors
RECURSIVE ScanReverse(_, _, _, _, _)
ScanReverse(pairs, i, pred, succ, fringe) ==
  IF i > Len(pairs) THEN [found |-> None, pred |-> pred, succ |-> succ, fringe |-> fringe]
  ELSE LET v == pairs[i][1]
           w == pairs[i][2]
           new == w \notin DOMAIN succ
           succ1 == IF new THEN DictSet(succ, w, Some(v)) ELSE succ
           fringe1 == IF new THEN Append(fringe, w) ELSE fringe
       IN  IF w \in DOMAIN pred
           THEN [found |-> Some(w), pred |-> pred, succ |-> succ1, fringe |-> fringe1]
           ELSE ScanReverse(pairs, i + 1, pred, succ1, fringe1)

\* while forward_fringe and reverse_fringe: ...; raise NetworkXNoPath
RECURSIVE BidirectionalSearch(_, _, _, _, _)
BidirectionalSearch(g, pred, succ, forward_fringe, reverse_fringe) ==
  IF forward_fringe = << >> \/ reverse_fringe = << >>
  THEN [found |-> None, pred |-> pred, succ |-> succ, fringe |-> << >>]
  ELSE IF Len(forward_fringe) <= Len(reverse_fringe)
  THEN LET r == ScanForward(LevelPairs(forward_fringe, g.succ), 1, pred, succ, << >>)
       IN  IF r.found # None THEN r
           ELSE BidirectionalSearch(g, r.pred, r.succ, r.fringe, reverse_fringe)
  ELSE LET r == ScanReverse(LevelPairs(reverse_fringe, g.pred), 1, pred, succ, << >>)
       IN  IF r.found # None THEN r
           ELSE BidirectionalSearch(g, r.pred, r.succ, forward_fringe, r.fringe)

\* from w back to the source along pred, source first
RECURSIVE PathToSource(_, _)
PathToSource(pred, w) ==
  IF pred[w] = None THEN <<w>> ELSE Append(PathToSource(pred, pred[w][1]), w)

\* from w on to the target along succ, w first
RECURSIVE PathToTarget(_, _)
PathToTarget(succ, w) ==
  IF succ[w] = None THEN <<w>> ELSE <<w>> \o PathToTarget(succ, succ[w][1])

\* the first simple path a depth-first walk over the successors finds
RECURSIVE FirstPathFrom(_, _, _, _)
FirstPathFrom(g, path, i, target) ==
  LET current == path[Len(path)]
  IN  IF current = target THEN Some(path)
      ELSE IF i > Len(g.succ[current]) THEN None
      ELSE LET w == g.succ[current][i]
               deeper == IF w \in SeqToSet(path) THEN None
                         ELSE FirstPathFrom(g, Append(path, w), 1, target)
           IN  IF deeper # None THEN deeper
               ELSE FirstPathFrom(g, path, i + 1, target)

\* a search that returns some path, not a shortest one
shortest_path_first_found(g, source, target) ==
  FirstPathFrom(g, <<source>>, 1, target)

\* the path, or None for NetworkXNoPath
shortest_path(g, source, target) ==
  IF target = source THEN Some(<<source>>)
  ELSE LET r == BidirectionalSearch(g, [x \in {source} |-> None],
                                    [x \in {target} |-> None],
                                    <<source>>, <<target>>)
       IN  IF r.found = None THEN None
           ELSE Some(PathToSource(r.pred, r.found[1])
                     \o Tail(PathToTarget(r.succ, r.found[1])))

\* find_path without its except clause: NetworkXNoPath reaches the caller
find_path_no_except(g, from_node, to_node) ==
  IF ~HasNode(g, from_node) THEN Raise(g, "NotFound")
  ELSE IF ~HasNode(g, to_node) THEN Raise(g, "NotFound")
  ELSE LET path == shortest_path(g, from_node, to_node)
       IN  IF path = None THEN Raise(g, "NetworkXNoPath") ELSE Ok(g, path[1])

find_path(g, from_node, to_node) ==
  IF ~HasNode(g, from_node) THEN Raise(g, "NotFound")
  ELSE IF ~HasNode(g, to_node) THEN Raise(g, "NotFound")
  ELSE LET path == shortest_path(g, from_node, to_node)
       IN  IF path = None THEN Ok(g, << >>) ELSE Ok(g, path[1])

---------------------------------------------------------------------------
(* get_execution_sequence: the walk along the outgoing edge of lowest      *)
(* order.                                                                  *)

\* dict(attrs) with the "from" and "to" keys: the record of one edge
EdgeRecord(g, e) == DictSet(DictSet(g.edata[e], "from", e[1]), "to", e[2])

\* dict(self.graph.nodes[n]) with the "node_id" key
NodeRecord(g, n) == DictSet(g.node[n], "node_id", n)

\* d.get(key, default)
DictGet(d, key, default) == IF key \in DOMAIN d THEN d[key] ELSE default

\* e goes behind every record whose key is not greater than its own
RECURSIVE InsertByOrder(_, _)
InsertByOrder(sorted, e) ==
  IF sorted = << >> THEN <<e>>
  ELSE IF DictGet(Head(sorted), "order", 0) <= DictGet(e, "order", 0)
  THEN <<Head(sorted)>> \o InsertByOrder(Tail(sorted), e)
  ELSE <<e>> \o sorted

\* a sort that puts the record added last in front of its equals
RECURSIVE SortByOrder_unstable(_)
SortByOrder_unstable(s) ==
  IF s = << >> THEN << >>
  ELSE InsertByOrder(SortByOrder_unstable(Tail(s)), Head(s))

\* outgoing.sort(key=lambda e: e.get("order", 0)): ascending, and stable
RECURSIVE SortByOrder(_)
SortByOrder(s) ==
  IF s = << >> THEN << >>
  ELSE InsertByOrder(SortByOrder(SubSeq(s, 1, Len(s) - 1)), s[Len(s)])

\* `current` as a condition: the empty string is falsy
Truthy(current) == current # ""

\* a walk that stops in front of a decision node instead of on it
RECURSIVE WalkFrom_stop_before(_, _, _, _, _)
WalkFrom_stop_before(g, current, visited, sequence, until_decision) ==
  IF ~(Truthy(current) /\ current \notin visited) THEN sequence
  ELSE LET node_data == NodeRecord(g, current)
           sequence1 == Append(sequence, node_data)
           outgoing == [i \in DOMAIN g.succ[current] |->
                          EdgeRecord(g, <<current, g.succ[current][i]>>)]
       IN  IF until_decision /\ DictGet(node_data, "node_type", "") = "decision"
           THEN sequence
           ELSE IF outgoing = << >> THEN sequence1
           ELSE WalkFrom_stop_before(g, SortByOrder(outgoing)[1]["to"],
                                     visited \cup {current}, sequence1,
                                     until_decision)

\* the while loop, from its test on
RECURSIVE WalkFrom(_, _, _, _, _)
WalkFrom(g, current, visited, sequence, until_decision) ==
  IF ~(Truthy(current) /\ current \notin visited) THEN sequence
  ELSE LET node_data == NodeRecord(g, current)
           sequence1 == Append(sequence, node_data)
           outgoing == [i \in DOMAIN g.succ[current] |->
                          EdgeRecord(g, <<current, g.succ[current][i]>>)]
       IN  IF until_decision /\ DictGet(node_data, "node_type", "") = "decision"
           THEN sequence1
           ELSE IF outgoing = << >> THEN sequence1
           ELSE WalkFrom(g, SortByOrder(outgoing)[1]["to"], visited \cup {current},
                         sequence1, until_decision)

get_execution_sequence(g, from_node, until_decision) ==
  IF ~HasNode(g, from_node) THEN Raise(g, "NotFound")
  ELSE Ok(g, WalkFrom(g, from_node, {}, << >>, until_decision))

---------------------------------------------------------------------------
(* The queries: get_edges, validate_graph and get_graph_info.              *)

\* self.graph.edges(): the pairs in iteration order, node by node
RECURSIVE EdgesFrom(_, _)
EdgesFrom(g, nodes) ==
  IF nodes = << >> THEN << >>
  ELSE out_edges(g, Head(nodes)) \o EdgesFrom(g, Tail(nodes))

get_edges(g, node_id) ==
  IF node_id = None
  THEN Ok(g, [i \in DOMAIN EdgesFrom(g, g.keys) |->
                EdgeRecord(g, EdgesFrom(g, g.keys)[i])])
  ELSE IF ~HasNode(g, node_id[1]) THEN Raise(g, "NotFound")
  ELSE LET pairs == in_edges(g, node_id[1]) \o out_edges(g, node_id[1])
       IN  Ok(g, [i \in DOMAIN pairs |-> EdgeRecord(g, pairs[i])])

\* self.graph.in_degree(n), and G.degree(n), which counts a self-loop twice
in_degree(g, n) == Len(g.pred[n])

degree(g, n) == Len(g.pred[n]) + Len(g.succ[n])

\* the sum of the values of the function f
RECURSIVE SumOver(_)
SumOver(f) ==
  IF DOMAIN f = {} THEN 0
  ELSE LET x == CHOOSE y \in DOMAIN f : TRUE
       IN  f[x] + SumOver([y \in (DOMAIN f) \ {x} |-> f[y]])

\* the simple cycles that begin with path and stay within the nodes allowed:
\* one if an edge leads from the last node of path back to the first, and
\* those of every extension of path by a node not yet on it
RECURSIVE CyclesThrough(_, _, _)
CyclesThrough(g, path, allowed) ==
  LET current == path[Len(path)]
      closes == IF has_edge(g, current, path[1]) THEN 1 ELSE 0
      further == {w \in allowed \ SeqToSet(path) : has_edge(g, current, w)}
  IN  closes + SumOver([w \in further |-> CyclesThrough(g, Append(path, w), allowed)])

\* a count that leaves the self-loops out
simple_cycles_count_no_selfloops(g) ==
  SumOver([i \in DOMAIN g.keys |->
             CyclesThrough(g, <<g.keys[i]>>, {g.keys[j] : j \in (i + 1)..Len(g.keys)})
             - (IF has_edge(g, g.keys[i], g.keys[i]) THEN 1 ELSE 0)])

\* len(list(nx.simple_cycles(G))): every simple cycle, a self-loop included,
\* counted once, at its first node in node order
simple_cycles_count(g) ==
  SumOver([i \in DOMAIN g.keys |->
             CyclesThrough(g, <<g.keys[i]>>, {g.keys[j] : j \in (i + 1)..Len(g.keys)})])

\* a warning is a record: its kind, and the nodes or the number it names
validate_graph(g) ==
  LET isolated == SelectSeq(g.keys, LAMBDA n : degree(g, n) = 0)
      entry_points == SelectSeq(g.keys, LAMBDA n : in_degree(g, n) = 0)
      cycles == simple_cycles_count(g)
      w1 == IF isolated # << >>
            THEN <<[kind |-> "isolated", names |-> isolated]>> ELSE << >>
      w2 == IF Len(entry_points) > 1
            THEN <<[kind |-> "entry_points", names |-> entry_points]>> ELSE << >>
      w3 == IF cycles > 0
            THEN <<[kind |-> "cycles", count |-> cycles]>> ELSE << >>
  IN  Ok(g, [valid |-> TRUE, warnings |-> w1 \o w2 \o w3])

\* sorted(list(phases)): ascending
RECURSIVE sorted(_)
sorted(S) ==
  IF S = {} THEN << >>
  ELSE LET least == CHOOSE x \in S : \A y \in S : x <= y
       IN  <<least>> \o sorted(S \ {least})

\* a listing of the phases in the nodes' order, neither sorted nor distinct
PhasesOf_unsorted(g) ==
  LET with == SelectSeq(g.keys, LAMBDA n : "phase" \in DOMAIN g.node[n])
  IN  [i \in DOMAIN with |-> g.node[with[i]]["phase"]]

\* the "phases" entry of get_graph_info
PhasesOf(g) ==
  sorted({g.node[n]["phase"] : n \in {m \in DOMAIN g.node : "phase" \in DOMAIN g.node[m]}})

get_graph_info(g) ==
  LET TypeOf(n) == DictGet(g.node[n], "node_type", "unknown")
      types == {TypeOf(n) : n \in DOMAIN g.node}
      CountOf(t) == Cardinality({n \in DOMAIN g.node : TypeOf(n) = t})
  IN  Ok(g, [num_nodes       |-> number_of_nodes(g),
             num_edges       |-> number_of_edges(g),
             node_types      |-> [t \in types |-> CountOf(t)],
             phases          |-> PhasesOf(g),
             decision_points |-> CountOf("decision"),
             loops           |-> CountOf("loop")])

---------------------------------------------------------------------------
(* The bulk tools of GraphMCPServer._call_tool: the items are added one by *)
(* one, and the first ValueError ends the call with the earlier items      *)
(* applied.                                                                *)

RECURSIVE BulkNodesFrom(_, _, _, _)
BulkNodesFrom(g, nodes, i, created) ==
  IF i > Len(nodes) THEN Ok(g, [created |-> created])
  ELSE LET n == nodes[i]
           r == add_node(g, n.node_id, n.node_type, n.label, n.phase, n.tool,
                         n.properties)
       IN  IF r.status # "ok" THEN Raise(r.graph, r.status)
           ELSE BulkNodesFrom(r.graph, nodes, i + 1, Append(created, r.value))

\* a bulk call that undoes the earlier items when one fails
bulk_add_nodes_atomic(g, nodes) ==
  LET r == BulkNodesFrom(g, nodes, 1, << >>)
  IN  IF r.status # "ok" THEN Raise(g, r.status) ELSE r

bulk_add_nodes(g, nodes) == BulkNodesFrom(g, nodes, 1, << >>)

RECURSIVE BulkEdgesFrom(_, _, _, _)
BulkEdgesFrom(g, edges, i, created) ==
  IF i > Len(edges) THEN Ok(g, [created |-> created])
  ELSE LET e == edges[i]
           r == add_edge(g, e.from, e.to, e.order, e.condition, e.properties)
       IN  IF r.status # "ok" THEN Raise(r.graph, r.status)
           ELSE BulkEdgesFrom(r.graph, edges, i + 1, Append(created, r.value))

bulk_add_edges(g, edges) == BulkEdgesFrom(g, edges, 1, << >>)

---------------------------------------------------------------------------
(* The registry: the module-level dict `graphs` of server.py, graph id ->  *)
(* StateGraph, and the branches of _call_tool as functions of it.  A       *)
(* result is the registry afterwards, a status and the value returned.     *)

list_nodes(g) == Ok(g, [i \in DOMAIN g.keys |-> NodeRecord(g, g.keys[i])])

get_node_edges(g, node_id) ==
  IF ~HasNode(g, node_id) THEN Raise(g, "NotFound")
  ELSE Ok(g, [node_id  |-> node_id,
              incoming |-> [i \in DOMAIN g.pred[node_id] |->
                              EdgeRecord(g, in_edges(g, node_id)[i])],
              outgoing |-> [i \in DOMAIN g.succ[node_id] |->
                              EdgeRecord(g, out_edges(g, node_id)[i])]])

RegOk(gs, v) == [graphs |-> gs, status |-> "ok", value |-> v]

RegRaise(gs, kind) == [graphs |-> gs, status |-> kind, value |-> None]

\* a create that replaces the graph registered under the id
create_state_graph_overwriting(gs, graph_id) ==
  RegOk(DictSet(gs, graph_id, EmptyGraph),
        [graph_id |-> graph_id, status |-> "created", num_nodes |-> 0,
         num_edges |-> 0])

create_state_graph(gs, graph_id) ==
  IF graph_id \in DOMAIN gs THEN RegRaise(gs, "AlreadyExists")
  ELSE RegOk(DictSet(gs, graph_id, EmptyGraph),
             [graph_id |-> graph_id, status |-> "created", num_nodes |-> 0,
              num_edges |-> 0])

delete_state_graph(gs, graph_id) ==
  RegOk(IF graph_id \in DOMAIN gs THEN DictDel(gs, graph_id) ELSE gs,
        [graph_id |-> graph_id, status |-> "deleted"])

\* the method a tool's branch calls on the graph that _get_graph returned
Method(tool_name, args, g) ==
  CASE tool_name = "add_node" ->
         add_node(g, args.node_id, args.node_type, args.label, args.phase,
                  args.tool, args.properties)
    [] tool_name = "update_node" ->
         update_node(g, args.node_id, args.label, args.phase, args.tool,
                     args.properties)
    [] tool_name = "remove_node" -> remove_node(g, args.node_id)
    [] tool_name = "get_node" -> get_node(g, args.node_id)
    [] tool_name = "list_nodes" -> list_nodes(g)
    [] tool_name = "add_edge" ->
         add_edge(g, args.from, args.to, args.order, args.condition, args.properties)
    [] tool_name = "remove_edge" -> remove_edge(g, args.from, args.to)
    [] tool_name = "get_edges" -> get_edges(g, args.node_id)
    [] tool_name = "set_edge_order" -> set_edge_order(g, args.from, args.to, args.order)
    [] tool_name = "set_edge_condition" ->
         set_edge_condition(g, args.from, args.to, args.condition)
    [] tool_name = "get_node_edges" -> get_node_edges(g, args.node_id)
    [] tool_name = "bulk_add_nodes" -> bulk_add_nodes(g, args.nodes)
    [] tool_name = "bulk_add_edges" -> bulk_add_edges(g, args.edges)
    [] tool_name = "validate_graph" -> validate_graph(g)
    [] tool_name \in {"get_graph_stats", "get_state_graph_info"} -> get_graph_info(g)
    [] tool_name = "find_path" -> find_path(g, args.from, args.to)
    [] tool_name = "get_execution_sequence" ->
         get_execution_sequence(g, args.from, args.until_decision)

\* g = self._get_graph(graph_id), then the method
graph_tool(gs, graph_id, tool_name, args) ==
  IF graph_id \notin DOMAIN gs THEN RegRaise(gs, "NotFound")
  ELSE LET r == Method(tool_name, args, gs[graph_id])
       IN  [graphs |-> [gs EXCEPT ![graph_id] = r.graph], status |-> r.status,
            value |-> r.value]

\* d.get(key): None, or the value
Get(d, key) == IF key \in DOMAIN d THEN Some(d[key]) ELSE None

\* `a or b` for two optional strings: None and the empty string are falsy
OrElse(a, b) == IF a = None \/ a = Some("") THEN b ELSE a

\* the node loop of import_graph, over the (node id, record) items
RECURSIVE ImportNodesFrom(_, _, _)
ImportNodesFrom(g, items, i) ==
  IF i > Len(items) THEN Ok(g, None)
  ELSE LET node_id == items[i][1]
           node_data == items[i][2]
           node_type == OrElse(Get(node_data, "node_type"),
                               Some(DictGet(node_data, "type", "action")))
           r == add_node(g, node_id, node_type[1],
                         OrElse(Get(node_data, "label"), Get(node_data, "name")),
                         Get(node_data, "phase"), Get(node_data, "tool"),
                         Get(node_data, "properties"))
       IN  IF r.status # "ok" THEN r ELSE ImportNodesFrom(r.graph, items, i + 1)

\* the edge loop of import_graph; an endpoint that no key gives is None,
\* which is not a node
RECURSIVE ImportEdgesFrom(_, _, _)
ImportEdgesFrom(g, edges, i) ==
  IF i > Len(edges) THEN Ok(g, None)
  ELSE LET edge == edges[i]
           from_node == OrElse(Get(edge, "from"), Get(edge, "parent"))
           to_node == OrElse(Get(edge, "to"), Get(edge, "child"))
           r == IF from_node = None \/ to_node = None THEN Raise(g, "NotFound")
                ELSE add_edge(g, from_node[1], to_node[1], DictGet(edge, "order", 0),
                              Get(edge, "condition"), Get(edge, "properties"))
       IN  IF r.status # "ok" THEN r ELSE ImportEdgesFrom(r.graph, edges, i + 1)

\* an import that registers the graph once every record is in, and not at
\* all when a record fails
import_graph_register_last(gs, graph_id, file) ==
  IF file.suffix \notin {".yaml", ".yml", ".json"} THEN RegRaise(gs, "InvalidArgument")
  ELSE IF file.data = None THEN RegRaise(gs, "OSError")
  ELSE LET data == file.data[1]
           nodes == DictGet(data, "nodes", << >>)
           edges == DictGet(data, "edges", << >>)
           n == ImportNodesFrom(EmptyGraph, nodes, 1)
           e == IF n.status # "ok" THEN n ELSE ImportEdgesFrom(n.graph, edges, 1)
       IN  IF e.status # "ok" THEN RegRaise(gs, e.status)
           ELSE RegOk(DictSet(gs, graph_id, e.graph),
                      [graph_id |-> graph_id, status |-> "imported",
                       num_nodes |-> Len(nodes), num_edges |-> Len(edges)])

\* import_graph of a file: its suffix, and the data read from it (None when
\* the file cannot be read), with "nodes" as the items of the mapping in
\* file order and "edges" as the list
import_graph(gs, graph_id, file) ==
  IF file.suffix \notin {".yaml", ".yml", ".json"} THEN RegRaise(gs, "InvalidArgument")
  ELSE IF file.data = None THEN RegRaise(gs, "OSError")
  ELSE LET data == file.data[1]
           nodes == DictGet(data, "nodes", << >>)
           edges == DictGet(data, "edges", << >>)
           n == ImportNodesFrom(EmptyGraph, nodes, 1)
           e == IF n.status # "ok" THEN n ELSE ImportEdgesFrom(n.graph, edges, 1)
       IN  IF e.status # "ok" THEN RegRaise(DictSet(gs, graph_id, e.graph), e.status)
           ELSE RegOk(DictSet(gs, graph_id, e.graph),
                      [graph_id |-> graph_id, status |-> "imported",
                       num_nodes |-> Len(nodes), num_edges |-> Len(edges)])

---------------------------------------------------------------------------
(* export_graph, and the files it writes.  A file name is the sequence of  *)
(* its parts, the last being the suffix: <<"g", ".yaml">> is g.yaml.  A    *)
(* path is the directory and the file name; files maps every path that was *)
(* written to what the file holds: the document that yaml.safe_dump and    *)
(* json.dump write, in which a mapping is the list of its items in         *)
(* insertion order (sort_keys=False).                                      *)

\* fname.endswith(suffixes)
EndsWith(fname, suffixes) == fname[Len(fname)] \in suffixes

\* `data` as export_graph_yaml and export_graph_json build it: the nodes
\* mapping in the order of graph.nodes(), the edges in that of graph.edges()
ExportData(g, graph_id) ==
  [graph_id |-> graph_id,
   nodes    |-> [keys |-> g.keys,
                 item |-> [n \in DOMAIN g.node |-> NodeRecord(g, n)]],
   edges    |-> [i \in DOMAIN EdgesFrom(g, g.keys) |->
                   EdgeRecord(g, EdgesFrom(g, g.keys)[i])]]

\* the document written for data
Dump(data) ==
  [graph_id |-> data.graph_id,
   nodes    |-> [i \in DOMAIN data.nodes.keys |->
                   <<data.nodes.keys[i], data.nodes.item[data.nodes.keys[i]]>>],
   edges    |-> data.edges]

\* the export_graph branch: the graph is looked up, the file name is made
\* from the format, and the document is written under output_dir
export_graph(gs, fs, graph_id, format, output_dir, filename) ==
  IF graph_id \notin DOMAIN gs
  THEN [files |-> fs, status |-> "NotFound", value |-> None]
  ELSE IF format \notin {"yaml", "json"}
  THEN [files |-> fs, status |-> "InvalidArgument", value |-> None]
  ELSE LET suffix == IF format = "yaml" THEN ".yaml" ELSE ".json"
           accepted == IF format = "yaml" THEN {".yaml", ".yml"} ELSE {".json"}
           given == IF filename = None THEN <<graph_id, suffix>> ELSE filename[1]
           fname == IF EndsWith(given, accepted) THEN given
                    ELSE Append(given, suffix)
           path == [dir |-> output_dir, name |-> fname]
       IN  [files  |-> DictSet(fs, path, Dump(ExportData(gs[graph_id], graph_id))),
            status |-> "ok",
            value  |-> [graph_id |-> graph_id, format |-> format,
                        file_path |-> path]]

\* what import_graph gets from the file at path: the suffix of the path and
\* the document read, None when there is no such file
ReadFile(fs, path) ==
  [suffix |-> path.name[Len(path.name)],
   data   |-> IF path \in DOMAIN fs THEN Some(fs[path]) ELSE None]

---------------------------------------------------------------------------
(* The tool calls.  Every call is one step: GraphMCPServer._call_tool      *)
(* passes the arguments to the StateGraph method (a missing optional       *)
(* argument as None), and the method runs under the graph's lock.  last    *)
(* is the call just answered: the tool, its arguments, and the result or   *)
(* the kind of error raised; prev is the graph as that call found it.      *)
(* These calls address one registered graph, graph; the registry itself,   *)
(* graphs, is what the calls of the registry section work on.              *)

Call(op, args, r) ==
  /\ graph' = r.graph
  /\ prev' = graph
  /\ last' = [op |-> op, args |-> args, status |-> r.status, value |-> r.value]
  /\ UNCHANGED <<graphs, prev_graphs, threads, lock, locks, files, server, export>>

AddNode(node_id, node_type, label, phase, tool, properties) ==
  Call("add_node",
       [node_id |-> node_id, node_type |-> node_type, label |-> label,
        phase |-> phase, tool |-> tool, properties |-> properties],
       add_node(graph, node_id, node_type, label, phase, tool, properties))

UpdateNode(node_id, label, phase, tool, properties) ==
  Call("update_node",
       [node_id |-> node_id, label |-> label, phase |-> phase, tool |-> tool,
        properties |-> properties],
       update_node(graph, node_id, label, phase, tool, properties))

RemoveNode(node_id) ==
  Call("remove_node", [node_id |-> node_id], remove_node(graph, node_id))

GetNode(node_id) ==
  Call("get_node", [node_id |-> node_id], get_node(graph, node_id))

AddEdge(from_node, to_node, order, condition, properties) ==
  Call("add_edge",
       [from |-> from_node, to |-> to_node, order |-> order,
        condition |-> condition, properties |-> properties],
       add_edge(graph, from_node, to_node, order, condition, properties))

RemoveEdge(from_node, to_node) ==
  Call("remove_edge", [from |-> from_node, to |-> to_node],
       remove_edge(graph, from_node, to_node))

SetEdgeOrder(from_node, to_node, order) ==
  Call("set_edge_order", [from |-> from_node, to |-> to_node, order |-> order],
       set_edge_order(graph, from_node, to_node, order))

SetEdgeCondition(from_node, to_node, condition) ==
  Call("set_edge_condition",
       [from |-> from_node, to |-> to_node, condition |-> condition],
       set_edge_condition(graph, from_node, to_node, condition))

BulkAddNodes(nodes) ==
  Call("bulk_add_nodes", [nodes |-> nodes], bulk_add_nodes(graph, nodes))

BulkAddEdges(edges) ==
  Call("bulk_add_edges", [edges |-> edges], bulk_add_edges(graph, edges))

FindPath(from_node, to_node) ==
  Call("find_path", [from |-> from_node, to |-> to_node],
       find_path(graph, from_node, to_node))

GetEdges(node_id) ==
  Call("get_edges", [node_id |-> node_id], get_edges(graph, node_id))

ValidateGraph ==
  Call("validate_graph", None, validate_graph(graph))

GetGraphStats ==
  Call("get_graph_stats", None, get_graph_info(graph))

GetExecutionSequence(from_node, until_decision) ==
  Call("get_execution_sequence",
       [from |-> from_node, until_decision |-> until_decision],
       get_execution_sequence(graph, from_node, until_decision))

ListNodes ==
  Call("list_nodes", None, list_nodes(graph))

GetNodeEdges(node_id) ==
  Call("get_node_edges", [node_id |-> node_id], get_node_edges(graph, node_id))

\* a call that works on the registry: prev_graphs is the registry as the
\* call found it
RegistryCall(op, args, r) ==
  /\ graphs' = r.graphs
  /\ prev_graphs' = graphs
  /\ last' = [op |-> op, args |-> args, status |-> r.status, value |-> r.value]
  /\ UNCHANGED <<graph, prev, threads, lock, locks, files, server, export>>

CreateStateGraph(graph_id) ==
  RegistryCall("create_state_graph", [graph_id |-> graph_id],
               create_state_graph(graphs, graph_id))

DeleteStateGraph(graph_id) ==
  RegistryCall("delete_state_graph", [graph_id |-> graph_id],
               delete_state_graph(graphs, graph_id))

ImportGraph(graph_id, file) ==
  RegistryCall("import_graph", [graph_id |-> graph_id, file |-> file],
               import_graph(graphs, graph_id, file))

\* any tool that takes its graph from _get_graph
GraphTool(graph_id, tool_name, args) ==
  RegistryCall(tool_name, DictSet(args, "graph_id", graph_id),
               graph_tool(graphs, graph_id, tool_name, args))

\* the export_graph tool: the registry stays as it is, a file is written
ExportGraph(graph_id, format, filename) ==
  LET r == export_graph(graphs, files, graph_id, format, "graphs", filename)
  IN  /\ files' = r.files
      /\ prev_graphs' = graphs
      /\ last' = [op     |-> "export_graph",
                  args   |-> [graph_id |-> graph_id, format |-> format,
                              filename |-> filename],
                  status |-> r.status, value |-> r.value]
      /\ UNCHANGED <<graph, prev, graphs, threads, lock, locks, server, export>>

\* the import_graph tool on a path of the file system
ImportPath(graph_id, path) == ImportGraph(graph_id, ReadFile(files, path))

---------------------------------------------------------------------------
(* The serving loop: run_server reads one line at a time and hands every   *)
(* line that parses to handle_request.  A line is what json.loads makes of *)
(* it: json is None when the line is not JSON (JSONDecodeError), and       *)
(* otherwise the value, with its type and, for an object, its members; a   *)
(* line with eof set is the empty read at the end of the input.  server    *)
(* holds the attributes of GraphMCPServer (running, initialized), where    *)
(* run_server is (pc: serving, exited after the end of the input, crashed  *)
(* when an exception left the loop), the line last read, and the responses *)
(* written for it.                                                         *)

\* the names of the tools whose branch takes its graph from _get_graph and
\* calls one method on it
GraphToolNames ==
  {"get_state_graph_info", "add_node", "update_node", "remove_node", "get_node",
   "list_nodes", "add_edge", "remove_edge", "get_edges", "set_edge_order",
   "set_edge_condition", "get_node_edges", "bulk_add_nodes", "bulk_add_edges",
   "validate_graph", "get_graph_stats", "find_path", "get_execution_sequence"}

\* _call_tool: args["graph_id"] raises KeyError when the key is missing, and
\* a name that is no tool raises ValueError
call_tool(gs, params) ==
  LET tool_name == DictGet(params, "name", "")
      args == DictGet(params, "arguments", EmptyDict)
  IN  IF tool_name \notin GraphToolNames \cup {"create_state_graph", "delete_state_graph"}
      THEN RegRaise(gs, "InvalidArgument")
      ELSE IF "graph_id" \notin DOMAIN args THEN RegRaise(gs, "KeyError")
      ELSE IF tool_name = "create_state_graph"
      THEN create_state_graph(gs, args.graph_id)
      ELSE IF tool_name = "delete_state_graph"
      THEN delete_state_graph(gs, args.graph_id)
      ELSE graph_tool(gs, args.graph_id, tool_name, args)

\* the response with a result
ResultResponse(req_id, result) ==
  [jsonrpc |-> "2.0", id |-> req_id, result |-> result]

\* the response with an error
ErrorResponse(req_id, code, message) ==
  [jsonrpc |-> "2.0", id |-> req_id, error |-> [code |-> code, message |-> message]]

\* the tools/call branch of handle_request, r being what _call_tool did:
\* its result in a response, or the exception it raised as an error response
ToolsCall(initialized, req_id, r) ==
  [graphs |-> r.graphs, initialized |-> initialized, status |-> "ok",
   response |-> Some(IF r.status = "ok" THEN ResultResponse(req_id, r.value)
                     ELSE ErrorResponse(req_id, -32603, r.status))]

\* handle_request: request.get raises AttributeError when the request is
\* not an object; every exception of a tools/call becomes an error response;
\* a method that is not handled gets no response
handle_request(gs, initialized, request) ==
  LET none == [graphs |-> gs, initialized |-> initialized, status |-> "ok"]
  IN  IF request.type # "object"
      THEN [graphs |-> gs, initialized |-> initialized,
            status |-> "AttributeError", response |-> None]
      ELSE LET members == request.members
               method == DictGet(members, "method", "")
               params == DictGet(members, "params", EmptyDict)
               req_id == Get(members, "id")
           IN  IF method = "initialize"
               THEN [graphs |-> gs, initialized |-> TRUE, status |-> "ok",
                     response |->
                       Some(ResultResponse(req_id,
                                           [protocolVersion |-> "2024-11-05"]))]
               ELSE IF method = "prompts/list"
               THEN none @@ [response |->
                               Some(ResultResponse(req_id, [prompts |-> << >>]))]
               ELSE IF method = "prompts/get"
               THEN none @@ [response |->
                               Some(ErrorResponse(req_id, -32602, "Prompt not found"))]
               ELSE IF method = "tools/list"
               THEN none @@ [response |->
                               Some(ResultResponse(req_id, [tools |-> GraphToolNames]))]
               ELSE IF method = "tools/call"
               THEN ToolsCall(initialized, req_id, call_tool(gs, params))
               ELSE none @@ [response |-> None]

\* the rest of a turn of the loop once the line has parsed, r being what
\* handle_request did: an exception leaves the loop, a response is written
Handled(line, r) ==
  /\ server' = [server EXCEPT
                  !.pc = IF r.status = "ok" THEN "serving" ELSE "crashed",
                  !.initialized = r.initialized,
                  !.line = Some(line),
                  !.written = IF r.response = None THEN << >>
                              ELSE <<r.response[1]>>]
  /\ graphs' = r.graphs
  /\ prev_graphs' = graphs

\* one turn of the loop of run_server on the line read
Serve(line) ==
  /\ server.running /\ server.pc = "serving"
  /\ IF line.eof
     THEN /\ server' = [server EXCEPT !.pc = "exited", !.line = Some(line),
                                      !.written = << >>]
          /\ UNCHANGED <<graphs, prev_graphs, export>>
     ELSE IF line.json = None
     THEN /\ server' = [server EXCEPT !.line = Some(line), !.written = << >>]
          /\ UNCHANGED <<graphs, prev_graphs, export>>
     ELSE Handled(line, handle_request(graphs, server.initialized, line.json[1]))
  /\ UNCHANGED <<graph, prev, last, threads, lock, locks, files, export>>

---------------------------------------------------------------------------
(* Threads that call methods of one StateGraph.  A method is               *)
(* `with self._lock:` around its checks and its write, and a thread takes  *)
(* these one step at a time: it acquires the lock, makes the checks on the *)
(* graph as it is then, writes to the graph as it is then, and releases    *)
(* the lock on the way out.  threads[t] is the thread's place (pc), the    *)
(* call it is in, whether another thread was inside a method when the call *)
(* began (met), the call's status, and the calls it has completed (done);  *)
(* lock is None or the thread that holds self._lock.                       *)

Threads == {"t1", "t2"}

\* a lock that is handed to every thread that asks
CanAcquire_always(l, t) == TRUE

\* threading.RLock: free, or held by the asking thread itself
CanAcquire(l, t) == l = None \/ l = Some(t)

\* the checks at the head of add_node and of remove_node
Checked(g, call) ==
  IF call.op = "add_node"
  THEN IF HasNode(g, call.node_id) THEN "AlreadyExists"
       ELSE IF call.node_type \notin NodeTypes THEN "InvalidArgument" ELSE "ok"
  ELSE IF ~HasNode(g, call.node_id) THEN "NotFound" ELSE "ok"

\* the networkx call that follows the checks: add_node on a node that is
\* there replaces nothing but its attributes, remove_node on one that is
\* not there raises
Written(g, call) ==
  IF call.op = "add_node"
  THEN LET attrs == NodeAttrs(call.node_id, call.node_type, None, None, None, None)
       IN  [graph  |-> IF HasNode(g, call.node_id)
                       THEN [g EXCEPT !.node[call.node_id] = DictUpdate(@, attrs)]
                       ELSE nx_add_node(g, call.node_id, attrs),
            status |-> "ok"]
  ELSE IF HasNode(g, call.node_id)
       THEN [graph |-> nx_remove_node(g, call.node_id), status |-> "ok"]
       ELSE [graph |-> g, status |-> "NetworkXError"]

IdleThread ==
  [pc |-> "idle", call |-> None, met |-> FALSE, status |-> None, done |-> << >>]

ThreadBegin(t, call, max_calls) ==
  /\ threads[t].pc = "idle"
  /\ Len(threads[t].done) < max_calls
  /\ threads' = [threads EXCEPT ![t].pc = "acquire", ![t].call = Some(call),
                                 ![t].met = (lock # None), ![t].status = None]
  /\ UNCHANGED <<graph, prev, last, graphs, prev_graphs, lock, locks, files, server, export>>

ThreadAcquire(t) ==
  /\ threads[t].pc = "acquire"
  /\ CanAcquire(lock, t)
  /\ lock' = Some(t)
  /\ threads' = [threads EXCEPT ![t].pc = "check"]
  /\ UNCHANGED <<graph, prev, last, graphs, prev_graphs, locks, files, server, export>>

ThreadCheck(t) ==
  /\ threads[t].pc = "check"
  /\ LET status == Checked(graph, threads[t].call[1])
     IN  threads' = [threads EXCEPT ![t].pc = IF status = "ok" THEN "write"
                                              ELSE "release",
                                    ![t].status = Some(status)]
  /\ UNCHANGED <<graph, prev, last, graphs, prev_graphs, lock, locks, files, server, export>>

ThreadWrite(t) ==
  /\ threads[t].pc = "write"
  /\ LET w == Written(graph, threads[t].call[1])
     IN  /\ graph' = w.graph
         /\ threads' = [threads EXCEPT ![t].pc = "release",
                                        ![t].status = Some(w.status)]
  /\ UNCHANGED <<prev, last, graphs, prev_graphs, lock, locks, files, server, export>>

ThreadRelease(t) ==
  /\ threads[t].pc = "release"
  /\ lock' = IF lock = Some(t) THEN None ELSE lock
  /\ threads' = [threads EXCEPT
                   ![t].pc = "idle",
                   ![t].done = Append(@, [call   |-> threads[t].call[1],
                                          status |-> threads[t].status[1]])]
  /\ UNCHANGED <<graph, prev, last, graphs, prev_graphs, locks, files, server, export>>

---------------------------------------------------------------------------
(* Threads that call methods of the registered StateGraphs.  Every        *)
(* StateGraph makes its own RLock in __init__, and a method takes the lock *)
(* of the graph it is called on and no other: locks[graph_id] is None or   *)
(* the thread that holds the lock of the graph registered under graph_id.  *)
(* A call here names its graph (call.graph_id); met records whether some   *)
(* other thread held a lock when the call began.                           *)

GraphIds == {"g", "h"}

\* one lock for every graph, as a class attribute would be
LockOf_shared(graph_id) == "g"

\* self._lock of the StateGraph registered under graph_id
LockOf(graph_id) == graph_id

\* thread t is inside a method of the graph registered under graph_id
Busy(t, graph_id) ==
  threads[t].pc # "idle" /\ threads[t].call[1].graph_id = graph_id

GraphThreadBegin(t, call) ==
  /\ threads[t].pc = "idle"
  /\ call.graph_id \in DOMAIN graphs
  /\ threads' = [threads EXCEPT
                   ![t].pc = "acquire", ![t].call = Some(call),
                   ![t].met = (\E id \in GraphIds :
                                 locks[id] # None /\ locks[id] # Some(t)),
                   ![t].status = None]
  /\ UNCHANGED <<graph, prev, last, graphs, prev_graphs, lock, locks, files, server, export>>

GraphThreadAcquire(t) ==
  /\ threads[t].pc = "acquire"
  /\ LET l == LockOf(threads[t].call[1].graph_id)
     IN  /\ CanAcquire(locks[l], t)
         /\ locks' = [locks EXCEPT ![l] = Some(t)]
  /\ threads' = [threads EXCEPT ![t].pc = "check"]
  /\ UNCHANGED <<graph, prev, last, graphs, prev_graphs, lock, files, server, export>>

GraphThreadCheck(t) ==
  /\ threads[t].pc = "check"
  /\ LET call == threads[t].call[1]
         status == Checked(graphs[call.graph_id], call)
     IN  threads' = [threads EXCEPT ![t].pc = IF status = "ok" THEN "write"
                                              ELSE "release",
                                    ![t].status = Some(status)]
  /\ UNCHANGED <<graph, prev, last, graphs, prev_graphs, lock, locks, files, server, export>>

GraphThreadWrite(t) ==
  /\ threads[t].pc = "write"
  /\ LET call == threads[t].call[1]
         w == Written(graphs[call.graph_id], call)
     IN  /\ graphs' = [graphs EXCEPT ![call.graph_id] = w.graph]
         /\ threads' = [threads EXCEPT ![t].pc = "release",
                                        ![t].status = Some(w.status)]
  /\ UNCHANGED <<graph, prev, last, prev_graphs, lock, locks, files, server, export>>

GraphThreadRelease(t) ==
  /\ threads[t].pc = "release"
  /\ LET l == LockOf(threads[t].call[1].graph_id)
     IN  locks' = [locks EXCEPT ![l] = IF @ = Some(t) THEN None ELSE @]
  /\ threads' = [threads EXCEPT ![t].pc = "idle"]
  /\ UNCHANGED <<graph, prev, last, graphs, prev_graphs, lock, files, server, export>>

\* every step a thread takes inside a method
GraphThreadStep(t) ==
  \/ GraphThreadAcquire(t)
  \/ GraphThreadCheck(t)
  \/ GraphThreadWrite(t)
  \/ GraphThreadRelease(t)

---------------------------------------------------------------------------
(* export_graph beside a thread that changes the graph.  The export_graph  *)
(* branch passes g.graph, the DiGraph itself, to export_graph_json or      *)
(* export_graph_yaml, which read it in two loops, first the nodes and then *)
(* the edges, without taking the lock of the StateGraph.  A method of the  *)
(* StateGraph called by another thread runs under the lock, as one step,   *)
(* and can run before, between and after the two loops.  export is where   *)
(* the export is (pc), the nodes and the edges it has put into data, and   *)
(* the graphs there have been since it began (seen).                       *)

\* export_graph is called: data is made, with no nodes and no edges
ExportBegin ==
  /\ export.pc \in {"idle", "written"}
  /\ export' = [pc |-> "nodes", nodes |-> << >>, edges |-> << >>, seen |-> {graph}]
  /\ UNCHANGED <<graph, prev, last, graphs, prev_graphs, threads, lock, locks,
                 files, server>>

\* for n in graph.nodes()
ExportNodeLoop ==
  /\ export.pc = "nodes"
  /\ export' = [export EXCEPT !.pc = "edges",
                              !.nodes = Dump(ExportData(graph, "g")).nodes]
  /\ UNCHANGED <<graph, prev, last, graphs, prev_graphs, threads, lock, locks,
                 files, server>>

\* for u, v, attrs in graph.edges(data=True), and the file is written
ExportEdgeLoop ==
  /\ export.pc = "edges"
  /\ export' = [export EXCEPT !.pc = "written",
                              !.edges = Dump(ExportData(graph, "g")).edges]
  /\ UNCHANGED <<graph, prev, last, graphs, prev_graphs, threads, lock, locks,
                 files, server>>

\* a method of the StateGraph called by another thread, r being what the
\* method does to the graph as it is now
Mutate(r) ==
  /\ graph' = r.graph
  /\ export' = [export EXCEPT !.seen = IF export.pc \in {"nodes", "edges"}
                                       THEN @ \cup {r.graph} ELSE @]
  /\ UNCHANGED <<prev, last, graphs, prev_graphs, threads, lock, locks, files,
                 server>>

\* a new StateGraph, before any call, and the empty registry of a new process
Init ==
  /\ graph = EmptyGraph
  /\ prev = EmptyGraph
  /\ last = [op |-> "create_state_graph", args |-> None, status |-> "ok",
             value |-> None]
  /\ graphs = EmptyDict
  /\ prev_graphs = EmptyDict
  /\ threads = [t \in Threads |-> IdleThread]
  /\ lock = None
  /\ locks = [graph_id \in GraphIds |-> None]
  /\ files = EmptyDict
  /\ server = [running |-> TRUE, initialized |-> FALSE, pc |-> "serving", line |-> None, written |-> << >>]
  /\ export = [pc |-> "idle", nodes |-> << >>, edges |-> << >>, seen |-> {}]

---------------------------------------------------------------------------
(* Spec: every mutating tool on one graph of up to three nodes.  The calls *)
(* are drawn from small sets; a call that would add an edge beyond         *)
(* MaxEdges is not made.                                                   *)

MaxEdges == 2

MaxBulk == 2

NodeIds == {"a", "b"}

\* a valid and an invalid node type
TypeArgs == {"action", "bogus"}

OrderArgs == {0, 1}

ConditionArgs == {None, Some("yes")}

\* sequences over S of length 1 .. n
SeqsUpTo(S, n) == UNION {[1..k -> S] : k \in 1..n}

\* the items of a bulk call: valid nodes (a duplicate id fails), and edges
\* into one node (an absent endpoint fails)
NodeItems ==
  [node_id : NodeIds, node_type : {"action"}, label : {None}, phase : {None},
   tool : {None}, properties : {None}]

EdgeItems ==
  [from : NodeIds, to : {"b"}, order : {0}, condition : {None},
   properties : {None}]

\* the node whose attributes, and whose outgoing edges' attributes, are changed
AttrNodes == {"a"}

\* the edges the graph would hold after adding the pairs
EdgesAfter(pairs) == Cardinality((DOMAIN graph.edata) \cup pairs)

Next ==
  \/ \E n \in NodeIds, t \in TypeArgs : AddNode(n, t, None, None, None, None)
  \/ \E n \in AttrNodes : UpdateNode(n, Some("L"), None, None, None)
  \/ \E n \in NodeIds : RemoveNode(n)
  \/ \E u \in NodeIds, v \in NodeIds :
       /\ EdgesAfter({<<u, v>>}) <= MaxEdges
       /\ AddEdge(u, v, 0, None, None)
  \/ \E u \in NodeIds, v \in NodeIds : RemoveEdge(u, v)
  \/ \E u \in AttrNodes, v \in NodeIds : SetEdgeOrder(u, v, 1)
  \/ \E u \in AttrNodes, v \in NodeIds : SetEdgeCondition(u, v, Some("yes"))
  \/ \E nodes \in SeqsUpTo(NodeItems, MaxBulk) : BulkAddNodes(nodes)
  \/ \E edges \in SeqsUpTo(EdgeItems, MaxBulk) :
       /\ EdgesAfter({<<edges[i].from, edges[i].to>> : i \in DOMAIN edges}) <= MaxEdges
       /\ BulkAddEdges(edges)

Spec == Init /\ [][Next]_vars

---------------------------------------------------------------------------
(* SpecCascade: node removal on graphs of up to three nodes and            *)
(* MaxCascadeEdges edges, self-loops included.                             *)

MaxCascadeEdges == 4

CascadeNodeIds == {"a", "b", "c"}

NextCascade ==
  \/ \E n \in CascadeNodeIds : AddNode(n, "action", None, None, None, None)
  \/ \E u \in CascadeNodeIds, v \in CascadeNodeIds :
       /\ EdgesAfter({<<u, v>>}) <= MaxCascadeEdges
       /\ AddEdge(u, v, 0, None, None)
  \/ \E n \in CascadeNodeIds : RemoveNode(n)

SpecCascade == Init /\ [][NextCascade]_vars

---------------------------------------------------------------------------
(* SpecNode: add_node with every combination of a valid or invalid type,   *)
(* an omitted, empty or given label, phase, tool and properties, on node   *)
(* "a"; node "b" and the edges between the two are what the calls on "a"   *)
(* must leave alone.                                                       *)

LabelArgs == {None, Some(""), Some("L")}

PhaseArgs == {None, Some(0)}

ToolArgs == {None, Some("t")}

PropertiesArgs == {None, Some(EmptyDict), Some([a |-> 1])}

NodeTypeArgs == {"decision", "bogus"}

NextNode ==
  \/ \E t \in NodeTypeArgs, l \in LabelArgs, p \in PhaseArgs, tl \in ToolArgs,
        pr \in PropertiesArgs : AddNode("a", t, l, p, tl, pr)
  \/ \E t \in NodeTypeArgs : AddNode("b", t, None, None, None, None)
  \/ \E n \in NodeIds : GetNode(n)
  \/ \E n \in NodeIds : RemoveNode(n)
  \/ \E u \in NodeIds, v \in NodeIds : u # v /\ AddEdge(u, v, 0, None, None)

SpecNode == Init /\ [][NextNode]_vars

---------------------------------------------------------------------------
(* SpecUpdate: update_node on node "a" with every combination of given and *)
(* omitted fields, after add_node with or without optional attributes.     *)

UpdateLabelArgs == {None, Some(""), Some("M")}

UpdatePhaseArgs == {None, Some(0)}

UpdateToolArgs == {None, Some("u")}

UpdatePropertiesArgs == {None, Some([a |-> 1]), Some([b |-> 2]), Some([a |-> 2])}

NextUpdate ==
  \/ AddNode("a", "decision", Some("L"), Some(1), Some("t"), Some([a |-> 1]))
  \/ \E n \in NodeIds : AddNode(n, "action", None, None, None, None)
  \/ \E l \in UpdateLabelArgs, p \in UpdatePhaseArgs, tl \in UpdateToolArgs,
        pr \in UpdatePropertiesArgs : UpdateNode("a", l, p, tl, pr)
  \/ \E n \in NodeIds : RemoveNode(n)
  \/ \E u \in NodeIds : AddEdge(u, "a", 1, Some("yes"), None)

SpecUpdate == Init /\ [][NextUpdate]_vars

---------------------------------------------------------------------------
(* SpecEdge: add_edge on the pairs out of node "a" with every combination  *)
(* of order, condition and properties, so that a pair is added again with  *)
(* other attributes.                                                       *)

EdgePropertiesArgs == {None, Some([w |-> 1])}

NextEdge ==
  \/ \E n \in NodeIds : AddNode(n, "action", None, None, None, None)
  \/ \E v \in NodeIds, o \in OrderArgs, c \in ConditionArgs,
        pr \in EdgePropertiesArgs : AddEdge("a", v, o, c, pr)
  \/ \E v \in NodeIds : RemoveEdge("a", v)

SpecEdge == Init /\ [][NextEdge]_vars

---------------------------------------------------------------------------
(* SpecPath: find_path on graphs of up to four nodes and MaxPathEdges      *)
(* edges, self-loops included.  The insertion order of the nodes plays no  *)
(* part in the search, so the nodes are added in one order; the edges are  *)
(* added in every order.  The edges into "d" carry a higher order and a    *)
(* condition.                                                              *)

MaxPathEdges == 3

PathNodeIds == <<"a", "b", "c", "d">>

PathNodes == SeqToSet(PathNodeIds)

NextPath ==
  \/ /\ Len(graph.keys) < Len(PathNodeIds)
     /\ AddNode(PathNodeIds[Len(graph.keys) + 1], "action", None, None, None, None)
  \/ \E u \in PathNodes, v \in PathNodes :
       /\ EdgesAfter({<<u, v>>}) <= MaxPathEdges
       /\ AddEdge(u, v, IF v = "d" THEN 1 ELSE 0,
                  IF v = "d" THEN Some("yes") ELSE None, None)
  \/ \E u \in PathNodes, v \in PathNodes : FindPath(u, v)

SpecPath == Init /\ [][NextPath]_vars

---------------------------------------------------------------------------
(* SpecSeq: get_execution_sequence on graphs of up to four nodes, one of   *)
(* them with the empty string as its id, and MaxSeqEdges edges, a          *)
(* self-loop and a cycle included.  The insertion order of the nodes plays *)
(* no part in the walk, so the nodes are added in one order; the edges of  *)
(* SeqEdgePairs are added with order 1, removed, and set to order 0, in    *)
(* every order.                                                            *)

MaxSeqEdges == 3

SeqNodeIds == <<"a", "b", "c", "">>

SeqNodes == SeqToSet(SeqNodeIds)

SeqEdgePairs ==
  {<<"a", "a">>, <<"a", "b">>, <<"a", "c">>, <<"a", "">>, <<"b", "a">>, <<"b", "c">>}

\* the types a node is added with
SeqTypeArgs(n) == IF n = "b" THEN {"action", "decision"} ELSE {"action"}

NextSeq ==
  \/ /\ Len(graph.keys) < Len(SeqNodeIds)
     /\ \E t \in SeqTypeArgs(SeqNodeIds[Len(graph.keys) + 1]) :
          AddNode(SeqNodeIds[Len(graph.keys) + 1], t, None, None, None, None)
  \/ \E e \in SeqEdgePairs :
       /\ EdgesAfter({e}) <= MaxSeqEdges
       /\ AddEdge(e[1], e[2], 1, None, None)
  \/ \E e \in SeqEdgePairs : RemoveEdge(e[1], e[2])
  \/ \E e \in SeqEdgePairs : SetEdgeOrder(e[1], e[2], 0)
  \/ \E n \in SeqNodes, ud \in BOOLEAN : GetExecutionSequence(n, ud)

SpecSeq == Init /\ [][NextSeq]_vars

---------------------------------------------------------------------------
(* SpecAnalysis: validate_graph and get_edges on graphs of up to three     *)
(* nodes and MaxAnalysisEdges edges, self-loops and cycles included.  The  *)
(* nodes are added in one order, the edges in every order.                 *)

MaxAnalysisEdges == 4

AnalysisNodeIds == <<"a", "b", "c">>

AnalysisNodes == SeqToSet(AnalysisNodeIds)

NextAnalysis ==
  \/ /\ Len(graph.keys) < Len(AnalysisNodeIds)
     /\ AddNode(AnalysisNodeIds[Len(graph.keys) + 1], "action", None, None, None, None)
  \/ \E u \in AnalysisNodes, v \in AnalysisNodes :
       /\ <<u, v>> \notin DOMAIN graph.edata
       /\ EdgesAfter({<<u, v>>}) <= MaxAnalysisEdges
       /\ AddEdge(u, v, 0, None, None)
  \/ \E n \in {None} \cup {Some(m) : m \in AnalysisNodes} : GetEdges(n)
  \/ ValidateGraph

SpecAnalysis == Init /\ [][NextAnalysis]_vars

---------------------------------------------------------------------------
(* SpecStats: get_graph_info on graphs of up to three nodes with a valid   *)
(* or invalid type and with or without a phase, and MaxStatsEdges edges.   *)
(* The nodes are added in one order; a phase is also set by update_node.   *)

MaxStatsEdges == 2

StatsNodeIds == <<"a", "b", "c">>

StatsTypeArgs == {"decision", "loop", "bogus"}

StatsPhaseArgs == {None, Some(1), Some(0)}

StatsEdgePairs == {<<"a", "a">>, <<"a", "b">>, <<"b", "a">>}

NextStats ==
  \/ \E t \in StatsTypeArgs, p \in StatsPhaseArgs :
       /\ Len(graph.keys) < Len(StatsNodeIds)
       /\ AddNode(StatsNodeIds[Len(graph.keys) + 1], t, None, p, None, None)
  \/ UpdateNode("a", None, Some(2), None, None)
  \/ \E e \in StatsEdgePairs :
       /\ EdgesAfter({e}) <= MaxStatsEdges
       /\ AddEdge(e[1], e[2], 0, None, None)
  \/ GetGraphStats

SpecStats == Init /\ [][NextStats]_vars

---------------------------------------------------------------------------
(* SpecCondition: set_edge_condition, with a condition and with null, on   *)
(* the edges out of node "a", which are added with either order and with   *)
(* or without a condition.                                                 *)

ConditionEdgePairs == {<<"a", "a">>, <<"a", "b">>}

SetConditionArgs == {None, Some("no")}

NextCondition ==
  \/ \E n \in NodeIds : AddNode(n, "action", None, None, None, None)
  \/ \E e \in ConditionEdgePairs, o \in OrderArgs, c \in ConditionArgs :
       AddEdge(e[1], e[2], o, c, Some([w |-> 1]))
  \/ \E e \in ConditionEdgePairs, c \in SetConditionArgs :
       SetEdgeCondition(e[1], e[2], c)
  \/ \E n \in {None, Some("a")} : GetEdges(n)

SpecCondition == Init /\ [][NextCondition]_vars

---------------------------------------------------------------------------
(* SpecRegistry: the registry with two graph ids.  Every tool that looks   *)
(* its graph up is called, with one set of arguments, on either id,        *)
(* registered or not; files of either naming, one that cannot be read, one *)
(* of an unsupported format and one whose second record fails are          *)
(* imported.                                                               *)

NoArgs == EmptyDict

RegistryRequests ==
  { [name |-> "add_node",
     args |-> [node_id |-> "a", node_type |-> "action", label |-> None,
               phase |-> None, tool |-> None, properties |-> None]],
    [name |-> "update_node",
     args |-> [node_id |-> "a", label |-> Some("L"), phase |-> None,
               tool |-> None, properties |-> None]],
    [name |-> "remove_node", args |-> [node_id |-> "a"]],
    [name |-> "get_node", args |-> [node_id |-> "a"]],
    [name |-> "list_nodes", args |-> NoArgs],
    [name |-> "add_edge",
     args |-> [from |-> "a", to |-> "a", order |-> 0, condition |-> None,
               properties |-> None]],
    [name |-> "remove_edge", args |-> [from |-> "a", to |-> "a"]],
    [name |-> "get_edges", args |-> [node_id |-> None]],
    [name |-> "set_edge_order", args |-> [from |-> "a", to |-> "a", order |-> 1]],
    [name |-> "set_edge_condition",
     args |-> [from |-> "a", to |-> "a", condition |-> Some("yes")]],
    [name |-> "get_node_edges", args |-> [node_id |-> "a"]],
    [name |-> "bulk_add_nodes",
     args |-> [nodes |-> <<[node_id |-> "a", node_type |-> "action", label |-> None,
                            phase |-> None, tool |-> None, properties |-> None]>>]],
    [name |-> "bulk_add_edges",
     args |-> [edges |-> <<[from |-> "a", to |-> "a", order |-> 0,
                            condition |-> None, properties |-> None]>>]],
    [name |-> "validate_graph", args |-> NoArgs],
    [name |-> "get_graph_stats", args |-> NoArgs],
    [name |-> "get_state_graph_info", args |-> NoArgs],
    [name |-> "find_path", args |-> [from |-> "a", to |-> "a"]],
    [name |-> "get_execution_sequence",
     args |-> [from |-> "a", until_decision |-> TRUE]] }

ImportFiles ==
  { [suffix |-> ".txt", data |-> None],
    [suffix |-> ".json", data |-> None],
    [suffix |-> ".json",
     data |-> Some([nodes |-> << <<"a", [type |-> "decision", name |-> "N"]>> >>,
                    edges |-> <<[parent |-> "a", child |-> "a", order |-> 1]>>])],
    [suffix |-> ".yaml",
     data |-> Some([nodes |-> << <<"a", [node_type |-> "action"]>> >>,
                    edges |-> <<[from |-> "a", to |-> "b"]>>])] }

NextRegistry ==
  \/ \E graph_id \in GraphIds : CreateStateGraph(graph_id)
  \/ \E graph_id \in GraphIds : DeleteStateGraph(graph_id)
  \/ \E graph_id \in GraphIds, file \in ImportFiles : ImportGraph(graph_id, file)
  \/ \E graph_id \in GraphIds, request \in RegistryRequests :
       GraphTool(graph_id, request.name, request.args)

SpecRegistry == Init /\ [][NextRegistry]_vars

---------------------------------------------------------------------------
(* SpecThreads: two threads, each making up to MaxCalls calls of add_node  *)
(* and remove_node with the node ids "a" and "b" on one StateGraph, their  *)
(* steps interleaved in every way.                                         *)

MaxCalls == 2

ThreadCalls ==
  [op : {"add_node"}, node_id : NodeIds, node_type : {"action"}]
    \cup [op : {"remove_node"}, node_id : {"a"}, node_type : {"action"}]

NextThreads ==
  \/ \E t \in Threads, call \in ThreadCalls : ThreadBegin(t, call, MaxCalls)
  \/ \E t \in Threads : ThreadAcquire(t)
  \/ \E t \in Threads : ThreadCheck(t)
  \/ \E t \in Threads : ThreadWrite(t)
  \/ \E t \in Threads : ThreadRelease(t)

SpecThreads == Init /\ [][NextThreads]_vars

---------------------------------------------------------------------------
(* SpecLocks: two registered graphs and two threads, each calling add_node *)
(* and remove_node on either graph, their steps interleaved in every way.  *)
(* The graphs are created before any thread starts.  The scheduler keeps   *)
(* running thread t2 whenever it can take a step; thread t1 may stay       *)
(* inside a method, holding its graph's lock, for as long as it likes.     *)

GraphThreadCalls ==
  [op : {"add_node", "remove_node"}, node_id : {"a"}, node_type : {"action"},
   graph_id : GraphIds]

NextLocks ==
  \/ \E graph_id \in GraphIds :
       /\ \A t \in Threads : threads[t].pc = "idle" /\ threads[t].call = None
       /\ CreateStateGraph(graph_id)
  \/ \E t \in Threads, call \in GraphThreadCalls : GraphThreadBegin(t, call)
  \/ \E t \in Threads : GraphThreadAcquire(t)
  \/ \E t \in Threads : GraphThreadCheck(t)
  \/ \E t \in Threads : GraphThreadWrite(t)
  \/ \E t \in Threads : GraphThreadRelease(t)

SpecLocks == Init /\ [][NextLocks]_vars /\ WF_vars(GraphThreadStep("t2"))

---------------------------------------------------------------------------
(* SpecExport: a graph "g" of up to two nodes, built with the node and     *)
(* edge tools, is exported as YAML to the file named after it, as JSON to  *)
(* a given file, or in a format that is not supported, and the files are   *)
(* imported under the graph id "h".                                        *)

ExportRequests ==
  { [name |-> "add_node",
     args |-> [node_id |-> "a", node_type |-> "action", label |-> None,
               phase |-> None, tool |-> None, properties |-> None]],
    [name |-> "add_node",
     args |-> [node_id |-> "b", node_type |-> "decision", label |-> Some("B"),
               phase |-> Some(0), tool |-> Some("t"),
               properties |-> Some([k |-> 1])]],
    [name |-> "update_node",
     args |-> [node_id |-> "a", label |-> Some(""), phase |-> None,
               tool |-> None, properties |-> None]],
    [name |-> "add_edge",
     args |-> [from |-> "a", to |-> "b", order |-> 1, condition |-> Some("yes"),
               properties |-> Some([w |-> 2])]] }

ExportCalls ==
  { [graph_id |-> "g", format |-> "yaml", filename |-> None],
    [graph_id |-> "g", format |-> "json", filename |-> Some(<<"out">>)],
    [graph_id |-> "h", format |-> "xml", filename |-> None] }

ImportPaths ==
  { [dir |-> "graphs", name |-> <<"g", ".yaml">>],
    [dir |-> "graphs", name |-> <<"out", ".json">>],
    [dir |-> "graphs", name |-> <<"g", ".txt">>] }

NextExport ==
  \/ CreateStateGraph("g")
  \/ \E request \in ExportRequests : GraphTool("g", request.name, request.args)
  \/ \E call \in ExportCalls :
       ExportGraph(call.graph_id, call.format, call.filename)
  \/ \E path \in ImportPaths : ImportPath("h", path)

SpecExport == Init /\ [][NextExport]_vars

---------------------------------------------------------------------------
(* SpecImport: files of either key naming, of both at once, with a node    *)
(* whose id is the empty string, and with a node record or an edge record  *)
(* that fails in the middle, imported under two graph ids, registered or   *)
(* not.                                                                    *)

NamingFiles ==
  { [suffix |-> ".json",
     data |-> Some([nodes |-> << <<"a", [node_type |-> "decision", label |-> "L",
                                        phase |-> 1]>>,
                                 <<"b", [node_type |-> "action"]>> >>,
                    edges |-> <<[from |-> "a", to |-> "b", order |-> 1,
                                 condition |-> "c"]>>])],
    [suffix |-> ".yaml",
     data |-> Some([nodes |-> << <<"a", [type |-> "decision", name |-> "N"]>>,
                                 <<"b", EmptyDict>> >>,
                    edges |-> <<[parent |-> "a", child |-> "b"]>>])],
    [suffix |-> ".yml",
     data |-> Some([nodes |-> << <<"a", [node_type |-> "loop", type |-> "decision",
                                        label |-> "L", name |-> "N"]>>,
                                 <<"b", [type |-> "success", label |-> "M"]>> >>,
                    edges |-> <<[from |-> "a", parent |-> "b", child |-> "b"],
                                [parent |-> "b", to |-> "a", child |-> "b"]>>])],
    [suffix |-> ".json",
     data |-> Some([nodes |-> << <<"", [type |-> "action"]>>,
                                 <<"a", EmptyDict>> >>,
                    edges |-> <<[from |-> "a", to |-> "a"],
                                [from |-> "", to |-> "a"]>>])] }

FailingFiles ==
  { [suffix |-> ".json",
     data |-> Some([nodes |-> << <<"a", [node_type |-> "action"]>>,
                                 <<"b", [node_type |-> "bogus"]>>,
                                 <<"c", [node_type |-> "action"]>> >>,
                    edges |-> <<[from |-> "a", to |-> "a"]>>])],
    [suffix |-> ".yaml",
     data |-> Some([nodes |-> << <<"a", [node_type |-> "action"]>>,
                                 <<"b", [node_type |-> "action"]>> >>,
                    edges |-> <<[from |-> "a", to |-> "b"],
                                [from |-> "b", to |-> "c"],
                                [from |-> "b", to |-> "a"]>>])],
    [suffix |-> ".json", data |-> None],
    [suffix |-> ".txt",
     data |-> Some([nodes |-> << <<"a", [node_type |-> "action"]>> >>,
                    edges |-> << >>])] }

NextImport ==
  \/ \E graph_id \in GraphIds : CreateStateGraph(graph_id)
  \/ \E graph_id \in GraphIds : DeleteStateGraph(graph_id)
  \/ \E graph_id \in GraphIds, file \in NamingFiles \cup FailingFiles :
       ImportGraph(graph_id, file)

SpecImport == Init /\ [][NextImport]_vars

---------------------------------------------------------------------------
(* SpecServer: the serving loop on every sequence of lines drawn from      *)
(* RequestLines: lines that are not JSON, JSON values that are not         *)
(* objects, objects with every method that is handled and with one that is *)
(* not, and tools/call requests, with and without an id, that succeed,     *)
(* that fail in the tool, that name no tool and that lack an argument.     *)

Object(members) == [type |-> "object", members |-> members]

Line(value) == [eof |-> FALSE, json |-> Some(value)]

ToolCallLine(req_id, name, arguments) ==
  Line(Object([method |-> "tools/call", id |-> req_id,
               params |-> [name |-> name, arguments |-> arguments]]))

RequestLines ==
  { [eof |-> TRUE, json |-> None],
    [eof |-> FALSE, json |-> None],
    Line([type |-> "array"]),
    Line([type |-> "number"]),
    Line(Object(EmptyDict)),
    Line(Object([method |-> "initialize", id |-> 0])),
    Line(Object([method |-> "tools/list", id |-> 1])),
    Line(Object([method |-> "prompts/list", id |-> 1])),
    Line(Object([method |-> "prompts/get", id |-> 1])),
    Line(Object([method |-> "notifications/initialized"])),
    Line(Object([method |-> "tools/call", params |-> EmptyDict])),
    ToolCallLine(2, "create_state_graph", [graph_id |-> "g"]),
    ToolCallLine(3, "create_state_graph", [graph_id |-> "h"]),
    ToolCallLine(4, "delete_state_graph", [graph_id |-> "g"]),
    ToolCallLine(5, "create_state_graph", EmptyDict),
    ToolCallLine(6, "no_such_tool", [graph_id |-> "g"]),
    ToolCallLine(7, "add_node",
                 [graph_id |-> "g", node_id |-> "a", node_type |-> "action",
                  label |-> None, phase |-> None, tool |-> None,
                  properties |-> None]),
    ToolCallLine(8, "remove_node", [graph_id |-> "h", node_id |-> "a"]),
    ToolCallLine(9, "list_nodes", [graph_id |-> "g"]) }

NextServer == \E line \in RequestLines : Serve(line)

SpecServer == Init /\ [][NextServer]_vars

---------------------------------------------------------------------------
(* SpecFrame: every tool of one graph, the queries among them, on a graph  *)
(* of up to two nodes, with node ids and edges that are there and that are *)
(* not, and with a node type that is not valid.  Edges are added between   *)
(* the pairs of FrameEdgePairs; every pair is removed and set.             *)

FrameTypeArgs == {"action", "bogus"}

FrameEdgePairs == {<<"a", "b">>, <<"b", "a">>, <<"a", "a">>}

NextFrame ==
  \/ \E n \in NodeIds, node_type \in FrameTypeArgs :
       AddNode(n, node_type, None, None, None, None)
  \/ \E n \in NodeIds : UpdateNode(n, Some(n), None, None, None)
  \/ \E n \in NodeIds : RemoveNode(n)
  \/ \E n \in NodeIds : GetNode(n)
  \/ ListNodes
  \/ \E e \in FrameEdgePairs : AddEdge(e[1], e[2], 0, None, None)
  \/ \E n, m \in NodeIds : RemoveEdge(n, m)
  \/ \E n, m \in NodeIds : SetEdgeOrder(n, m, 1)
  \/ \E n \in NodeIds : SetEdgeCondition(n, "b", Some("yes"))
  \/ \E node_id \in {None} \cup {Some(n) : n \in NodeIds} : GetEdges(node_id)
  \/ \E n \in NodeIds : GetNodeEdges(n)
  \/ ValidateGraph
  \/ GetGraphStats
  \/ \E n, m \in NodeIds : FindPath(n, m)
  \/ \E n \in NodeIds, until_decision \in BOOLEAN :
       GetExecutionSequence(n, until_decision)

SpecFrame == Init /\ [][NextFrame]_vars

---------------------------------------------------------------------------
(* SpecExportRace: exports of one graph, one after another, beside a       *)
(* thread that adds the nodes "a" and "b" and the edge between them and    *)
(* removes the node "b".                                                   *)

NextExportRace ==
  \/ ExportBegin
  \/ ExportNodeLoop
  \/ ExportEdgeLoop
  \/ \E n \in NodeIds : Mutate(add_node(graph, n, "action", None, None, None, None))
  \/ Mutate(add_edge(graph, "a", "b", 0, None, None))
  \/ Mutate(remove_node(graph, "b"))

SpecExportRace == Init /\ [][NextExportRace]_vars

---------------------------------------------------------------------------
(* Properties *)

\* the edges of g that go into or out of node n
Incident(g, n) == {e \in Edges(g) : e[1] = n \/ e[2] = n}

\* C1: in every reachable state, whatever calls were made and whether they
\* succeeded or failed, both endpoints of every edge (of the adjacency and
\* of the edge attributes) are nodes of the graph.
C1_ReferentialIntegrity ==
  \A e \in Edges(graph) \cup DOMAIN graph.edata :
    e[1] \in DOMAIN graph.node /\ e[2] \in DOMAIN graph.node

\* a node with an incident edge has just been removed and an edge is left
C1_Witness ==
  /\ last.op = "remove_node" /\ last.status = "ok"
  /\ Incident(prev, last.args.node_id) # {}
  /\ Edges(graph) # {}

\* C4: remove_node on a present node succeeds, takes away exactly that node
\* and exactly its k incident edges (a self-loop counted once), and leaves
\* every other node, its attributes, and every other edge and its
\* attributes as they were.
C4_RemoveNodeCascade ==
  (last.op = "remove_node" /\ last.args.node_id \in DOMAIN prev.node) =>
    LET n == last.args.node_id
        k == Cardinality(Incident(prev, n))
    IN  /\ last.status = "ok"
        /\ number_of_edges(graph) = number_of_edges(prev) - k
        /\ number_of_nodes(graph) = number_of_nodes(prev) - 1
        /\ Edges(graph) = Edges(prev) \ Incident(prev, n)
        /\ DOMAIN graph.edata = Edges(graph)
        /\ DOMAIN graph.node = (DOMAIN prev.node) \ {n}
        /\ \A m \in DOMAIN graph.node : graph.node[m] = prev.node[m]
        /\ \A e \in Edges(graph) : graph.edata[e] = prev.edata[e]

\* the removed node had a self-loop, an incoming and an outgoing edge, and
\* an edge between two other nodes is left
C4_Witness ==
  /\ last.op = "remove_node" /\ last.status = "ok"
  /\ LET n == last.args.node_id
     IN  /\ <<n, n>> \in Edges(prev)
         /\ \E m \in DOMAIN graph.node : <<n, m>> \in Edges(prev)
         /\ \E m \in DOMAIN graph.node : <<m, n>> \in Edges(prev)
         /\ Cardinality(Incident(prev, n)) = 3
  /\ Edges(graph) # {}

\* C7: add_edge on a pair whose source or target is not in the graph fails
\* with the not-found error and changes nothing: no edge and no node is
\* added.
C7_AddEdgeAbsentEndpoint ==
  (/\ last.op = "add_edge"
   /\ \/ last.args.from \notin DOMAIN prev.node
      \/ last.args.to \notin DOMAIN prev.node) =>
    /\ last.status = "NotFound"
    /\ graph = prev

\* the source is present, the target is not, and the graph holds an edge
C7_Witness ==
  /\ last.op = "add_edge" /\ last.status = "NotFound"
  /\ last.args.from \in DOMAIN prev.node
  /\ last.args.to \notin DOMAIN prev.node
  /\ Edges(graph) # {}

\* C2: add_node with an id that is already in the graph fails with the
\* already-exists error whatever the other arguments are (an invalid
\* node_type included) and leaves nodes, attributes and edges as they were.
C2_AddNodeDuplicate ==
  (last.op = "add_node" /\ last.args.node_id \in DOMAIN prev.node) =>
    /\ last.status = "AlreadyExists"
    /\ graph = prev

\* a duplicate add_node with an invalid type, on a graph with an edge
C2_Witness ==
  /\ last.op = "add_node" /\ last.status = "AlreadyExists"
  /\ last.args.node_type \notin NodeTypes
  /\ last.args.label # None
  /\ Edges(graph) # {}

\* the attributes an add_node call gives, as a get_node record: the label is
\* the node id only when no label is given
GivenAttrs(args) ==
  LET base == [node_type  |-> args.node_type,
               label      |-> IF args.label = None THEN args.node_id
                              ELSE args.label[1],
               properties |-> IF args.properties = None THEN EmptyDict
                              ELSE args.properties[1]]
      withPhase == IF args.phase # None THEN DictSet(base, "phase", args.phase[1])
                   ELSE base
  IN  IF args.tool # None THEN DictSet(withPhase, "tool", args.tool[1])
      ELSE withPhase

\* C3: after a successful add_node, get_node returns exactly the attributes
\* given, with label equal to node_id only when the label was omitted (so an
\* empty-string label is returned as the empty string).
C3_AddGetRoundTrip ==
  (last.op = "add_node" /\ last.status = "ok") =>
    LET r == get_node(graph, last.args.node_id)
    IN  r.status = "ok" /\ r.value = GivenAttrs(last.args)

\* C5: update_node with properties P leaves the node's properties equal to
\* the previous mapping overridden by P: P's keys take P's values, every
\* other previous key keeps its value, and there are no other keys.
C5_UpdateMergesProperties ==
  (last.op = "update_node" /\ last.status = "ok" /\ last.args.properties # None) =>
    LET n == last.args.node_id
        P == last.args.properties[1]
        old == prev.node[n]["properties"]
        new == graph.node[n]["properties"]
    IN  /\ DOMAIN new = (DOMAIN old) \cup (DOMAIN P)
        /\ \A k \in DOMAIN P : new[k] = P[k]
        /\ \A k \in (DOMAIN old) \ (DOMAIN P) : new[k] = old[k]

\* properties {a: 1} updated with {b: 2}: both keys are present
C5_Witness ==
  /\ last.op = "update_node" /\ last.status = "ok"
  /\ last.args.properties = Some([b |-> 2])
  /\ prev.node["a"]["properties"] = [a |-> 1]
  /\ graph.node["a"]["properties"] = [a |-> 1, b |-> 2]

\* key k is in both dicts with one value, or in neither
SameField(d, e, k) ==
  /\ (k \in DOMAIN d) <=> (k \in DOMAIN e)
  /\ (k \in DOMAIN d) => d[k] = e[k]

\* C6: update_node changes only the fields given, on the addressed node:
\* the node's type, every field not given, every other node and every edge
\* stay as they were.
C6_UpdateFrame ==
  (last.op = "update_node" /\ last.status = "ok") =>
    LET n == last.args.node_id
        old == prev.node[n]
        new == graph.node[n]
    IN  /\ SameField(old, new, "node_type")
        /\ (last.args.label = None) => SameField(old, new, "label")
        /\ (last.args.phase = None) => SameField(old, new, "phase")
        /\ (last.args.tool = None) => SameField(old, new, "tool")
        /\ (last.args.properties = None) => SameField(old, new, "properties")
        /\ DOMAIN new \subseteq {"node_type", "label", "phase", "tool", "properties"}
        /\ DOMAIN graph.node = DOMAIN prev.node
        /\ \A m \in (DOMAIN graph.node) \ {n} : graph.node[m] = prev.node[m]
        /\ graph.keys = prev.keys
        /\ graph.succ = prev.succ /\ graph.pred = prev.pred
        /\ graph.edata = prev.edata

\* only the label is given, on a node that has a phase, a tool and
\* properties, in a graph with another node and an edge
C6_Witness ==
  /\ last.op = "update_node" /\ last.status = "ok"
  /\ last.args.label # None /\ last.args.phase = None
  /\ last.args.tool = None /\ last.args.properties = None
  /\ {"phase", "tool"} \subseteq DOMAIN graph.node["a"]
  /\ DOMAIN graph.node["a"]["properties"] # {}
  /\ "b" \in DOMAIN graph.node
  /\ Edges(graph) # {}

\* the attributes an add_edge call gives: order, properties (empty when
\* omitted) and, only when given, condition
GivenEdgeAttrs(args) ==
  LET base == [order      |-> args.order,
               properties |-> IF args.properties = None THEN EmptyDict
                              ELSE args.properties[1]]
  IN  IF args.condition # None THEN DictSet(base, "condition", args.condition[1])
      ELSE base

\* how often x occurs in sequence s
Count(s, x) == Cardinality({i \in DOMAIN s : s[i] = x})

\* C8: add_edge on a pair that is already an edge succeeds, leaves exactly
\* one edge for the pair, and leaves that edge with exactly the attributes
\* of this call: with no condition when the call gives none.
C8_ReAddReplaces ==
  (last.op = "add_edge" /\ <<last.args.from, last.args.to>> \in Edges(prev)) =>
    LET u == last.args.from
        v == last.args.to
    IN  /\ last.status = "ok"
        /\ Edges(graph) = Edges(prev)
        /\ Count(graph.succ[u], v) = 1 /\ Count(graph.pred[v], u) = 1
        /\ graph.edata[<<u, v>>] = GivenEdgeAttrs(last.args)

\* the nodes a directed path of one or more edges leads to from the nodes S
RECURSIVE ReachableFrom(_, _)
ReachableFrom(g, S) ==
  LET T == S \cup {e[2] : e \in {d \in Edges(g) : d[1] \in S}}
  IN  IF T = S THEN S ELSE ReachableFrom(g, T)

\* a directed path (of no edge when a = b) leads from a to b
HasPath(g, a, b) == b \in ReachableFrom(g, {a})

\* the number of edges of a shortest directed path from a node of S to b,
\* d being the distance of S from the start; b is reachable
RECURSIVE Distance(_, _, _, _)
Distance(g, S, b, d) ==
  IF b \in S THEN d
  ELSE Distance(g, S \cup {e[2] : e \in {x \in Edges(g) : x[1] \in S}}, b, d + 1)

\* C9: find_path on two nodes of the graph never fails: it returns [a] for
\* a = b, with or without a self-loop, and the empty list when no directed
\* path leads from a to b; it fails, with not-found, only when a or b is
\* not in the graph.
C9_FindPathNeverRaises ==
  (last.op = "find_path") =>
    LET a == last.args.from
        b == last.args.to
        present == a \in DOMAIN graph.node /\ b \in DOMAIN graph.node
    IN  /\ present => last.status = "ok"
        /\ ~present => last.status = "NotFound"
        /\ (present /\ a = b) => last.value = <<a>>
        /\ (present /\ ~HasPath(graph, a, b)) => last.value = << >>

\* no path leads from a to b although one leads from b to a
C9_Witness ==
  /\ last.op = "find_path" /\ last.status = "ok" /\ last.value = << >>
  /\ last.args.from # last.args.to
  /\ HasPath(graph, last.args.to, last.args.from)

\* C10: when a directed path leads from a to b, find_path returns a
\* sequence that starts with a, ends with b, follows an edge of the graph
\* at every step, and has as few edges as any directed path from a to b.
C10_FindPathShortest ==
  (/\ last.op = "find_path"
   /\ last.args.from \in DOMAIN graph.node /\ last.args.to \in DOMAIN graph.node
   /\ HasPath(graph, last.args.from, last.args.to)) =>
    LET a == last.args.from
        b == last.args.to
        path == last.value
    IN  /\ last.status = "ok"
        /\ Len(path) >= 1
        /\ path[1] = a /\ path[Len(path)] = b
        /\ \A i \in 1..(Len(path) - 1) : <<path[i], path[i + 1]>> \in Edges(graph)
        /\ Len(path) - 1 = Distance(graph, {a}, b, 0)

\* the path returned is one edge although a two-edge path leads there too,
\* over an edge of higher order
C10_Witness ==
  /\ last.op = "find_path" /\ last.status = "ok" /\ Len(last.value) = 2
  /\ \E m \in (DOMAIN graph.node) \ {last.args.from, last.args.to} :
       /\ <<last.args.from, m>> \in Edges(graph)
       /\ <<m, last.args.to>> \in Edges(graph)
  /\ graph.edata[<<last.value[1], last.value[2]>>]["order"] = 1

\* the node ids of a sequence of node records
Ids(sequence) == [i \in DOMAIN sequence |-> sequence[i]["node_id"]]

\* the outgoing edges of node n whose order is minimal among n's outgoing edges
MinOrderEdges(g, n) ==
  {e \in Edges(g) : e[1] = n /\ \A d \in Edges(g) :
     d[1] = n => g.edata[e]["order"] <= g.edata[d]["order"]}

\* C11: a successful get_execution_sequence returns a walk that starts at
\* the start node; with until_decision true no node before the last is a
\* decision node (so a decision start node yields [start]); and the walk
\* ends only at a decision node (until_decision true), at a node with no
\* outgoing edges, or where an edge of minimal order leads to a node
\* already in the sequence.
C11_StopsAtDecision ==
  (last.op = "get_execution_sequence" /\ last.status = "ok") =>
    LET ids == Ids(last.value)
        n == Len(ids)
        IsDecision(m) == graph.node[m]["node_type"] = "decision"
    IN  /\ n >= 1 /\ ids[1] = last.args.from
        /\ last.args.until_decision => \A i \in 1..(n - 1) : ~IsDecision(ids[i])
        /\ \/ last.args.until_decision /\ IsDecision(ids[n])
           \/ \A e \in Edges(graph) : e[1] # ids[n]
           \/ \E e \in MinOrderEdges(graph, ids[n]) : e[2] \in SeqToSet(ids)

\* C12: a successful get_execution_sequence returns a sequence that begins
\* with the start node, holds no node twice, and has between 1 and |nodes|
\* elements, on graphs with and without cycles.
C12_SequenceBounded ==
  (last.op = "get_execution_sequence" /\ last.status = "ok") =>
    LET ids == Ids(last.value)
    IN  /\ Len(ids) >= 1 /\ Len(ids) <= number_of_nodes(graph)
        /\ ids[1] = last.args.from
        /\ \A i \in DOMAIN ids, j \in DOMAIN ids : ids[i] = ids[j] => i = j

\* the place of v among the successors of u
Place(g, u, v) == CHOOSE i \in DOMAIN g.succ[u] : g.succ[u][i] = v

\* C13: every node of the sequence after the first is the target of an
\* outgoing edge of the node before it whose order is minimal among that
\* node's outgoing edges, and among the edges of minimal order the one
\* inserted earliest; the successors of a node are kept in the order their
\* edges were inserted: a new edge goes last, adding an edge again,
\* removing another edge or setting an order moves no edge.
C13_MinOrderEarliest ==
  /\ (last.op = "get_execution_sequence" /\ last.status = "ok") =>
       LET ids == Ids(last.value)
       IN  \A i \in 1..(Len(ids) - 1) :
             LET e == <<ids[i], ids[i + 1]>>
             IN  /\ e \in MinOrderEdges(graph, ids[i])
                 /\ \A d \in MinOrderEdges(graph, ids[i]) :
                      Place(graph, e[1], e[2]) <= Place(graph, d[1], d[2])
  /\ (last.op = "add_edge" /\ last.status = "ok") =>
       LET u == last.args.from
           v == last.args.to
       IN  /\ graph.succ[u] = IF <<u, v>> \in Edges(prev) THEN prev.succ[u]
                               ELSE Append(prev.succ[u], v)
           /\ \A w \in (DOMAIN graph.succ) \ {u} : graph.succ[w] = prev.succ[w]
  /\ (last.op = "remove_edge" /\ last.status = "ok") =>
       \A w \in DOMAIN graph.succ :
         graph.succ[w] = IF w = last.args.from
                         THEN SelectSeq(prev.succ[w], LAMBDA x : x # last.args.to)
                         ELSE prev.succ[w]
  /\ (last.op = "set_edge_order" /\ last.status = "ok") =>
       /\ graph.succ = prev.succ
       /\ graph.edata[<<last.args.from, last.args.to>>]["order"] = last.args.order

\* the first successor of the start node has the higher order and the two
\* inserted after it tie at the lower one: the walk goes on to the second
C13_Witness ==
  /\ last.op = "get_execution_sequence" /\ last.status = "ok"
  /\ Len(last.value) >= 2
  /\ LET u == last.value[1]["node_id"]
         Order(i) == graph.edata[<<u, graph.succ[u][i]>>]["order"]
     IN  /\ Len(graph.succ[u]) = 3
         /\ Order(1) = 1 /\ Order(2) = 0 /\ Order(3) = 0
         /\ last.value[2]["node_id"] = graph.succ[u][2]

\* the nodes the edges of C lead to from the nodes S, S included
RECURSIVE ReachVia(_, _)
ReachVia(C, S) ==
  LET T == S \cup {e[2] : e \in {d \in C : d[1] \in S}}
  IN  IF T = S THEN S ELSE ReachVia(C, T)

\* the edges C are those of one simple cycle: every node they touch has one
\* edge of C out and one in, and the edges lead from each node to every other
IsSimpleCycle(C) ==
  /\ C # {}
  /\ LET N == {e[1] : e \in C}
     IN  /\ {e[2] : e \in C} = N
         /\ \A n \in N : /\ Cardinality({e \in C : e[1] = n}) = 1
                         /\ Cardinality({e \in C : e[2] = n}) = 1
                         /\ ReachVia(C, {n}) = N

\* C14: validate_graph succeeds with valid = true; its warnings are at most
\* one of each kind: the isolated-nodes warning is there exactly when some
\* node has no incoming and no outgoing edge, and names exactly those nodes;
\* the entry-points warning exactly when more than one node has no incoming
\* edge, naming exactly those; the cycle warning exactly when some node
\* lies on a directed cycle (a self-loop included), with the number of
\* simple cycles.
C14_ValidateWarnings ==
  (last.op = "validate_graph") =>
    LET W == last.value.warnings
        Of(kind) == {i \in DOMAIN W : W[i].kind = kind}
        nodes == DOMAIN graph.node
        iso == {n \in nodes : \A e \in Edges(graph) : e[1] # n /\ e[2] # n}
        entries == {n \in nodes : \A e \in Edges(graph) : e[2] # n}
        onCycle == {n \in nodes :
                      n \in ReachVia(Edges(graph),
                                     {e[2] : e \in {d \in Edges(graph) : d[1] = n}})}
        cycles == Cardinality({C \in SUBSET Edges(graph) : IsSimpleCycle(C)})
    IN  /\ last.status = "ok" /\ last.value.valid = TRUE /\ graph = prev
        /\ \A i \in DOMAIN W : W[i].kind \in {"isolated", "entry_points", "cycles"}
        /\ Cardinality(Of("isolated")) = IF iso # {} THEN 1 ELSE 0
        /\ \A i \in Of("isolated") :
             SeqToSet(W[i].names) = iso /\ Len(W[i].names) = Cardinality(iso)
        /\ Cardinality(Of("entry_points")) = IF Cardinality(entries) > 1 THEN 1 ELSE 0
        /\ \A i \in Of("entry_points") :
             SeqToSet(W[i].names) = entries /\ Len(W[i].names) = Cardinality(entries)
        /\ Cardinality(Of("cycles")) = IF onCycle # {} THEN 1 ELSE 0
        /\ \A i \in Of("cycles") : W[i].count = cycles

\* all three warnings at once: an isolated node, a second entry point, and
\* a self-loop as the only cycle
C14_Witness ==
  /\ last.op = "validate_graph" /\ last.status = "ok"
  /\ Len(last.value.warnings) = 3
  /\ last.value.warnings[3] = [kind |-> "cycles", count |-> 1]
  /\ \E n \in DOMAIN graph.node : <<n, n>> \in Edges(graph)

\* two nodes and no edge: both are isolated, and there is no cycle warning
C14_WitnessTwoNodes ==
  /\ last.op = "validate_graph"
  /\ graph.keys = <<"a", "b">> /\ Edges(graph) = {}
  /\ last.value.warnings[1] = [kind |-> "isolated", names |-> <<"a", "b">>]
  /\ \A i \in DOMAIN last.value.warnings : last.value.warnings[i].kind # "cycles"

\* how many records of a get_edges result have the endpoints of edge e
Occurrences(records, e) ==
  Cardinality({i \in DOMAIN records :
                 records[i]["from"] = e[1] /\ records[i]["to"] = e[2]})

\* C17: get_edges with a node filter returns every edge into or out of the
\* node exactly once, a self-loop of the node too, and no other edge;
\* without a filter it returns every edge of the graph exactly once; every
\* record has its "from" and "to".
C17_GetEdgesUnion ==
  (last.op = "get_edges" /\ last.status = "ok") =>
    LET records == last.value
        wanted == IF last.args.node_id = None THEN Edges(graph)
                  ELSE Incident(graph, last.args.node_id[1])
    IN  /\ \A i \in DOMAIN records : {"from", "to"} \subseteq DOMAIN records[i]
        /\ \A e \in wanted : Occurrences(records, e) = 1
        /\ \A e \in Edges(graph) \ wanted : Occurrences(records, e) = 0
        /\ Len(records) = Cardinality(wanted)

\* C15: get_graph_info succeeds and reports the number of nodes and of
\* edges of the graph, a node_types mapping over valid types only whose
\* counts are those of the nodes of each type and sum to num_nodes, the
\* distinct phases of the nodes that have one in ascending order, the
\* number of decision nodes and the number of loop nodes.
C15_GraphInfo ==
  (last.op = "get_graph_stats") =>
    LET info == last.value
        nodes == DOMAIN graph.node
        OfType(t) == {n \in nodes : graph.node[n]["node_type"] = t}
        phased == {n \in nodes : "phase" \in DOMAIN graph.node[n]}
    IN  /\ last.status = "ok" /\ graph = prev
        /\ info.num_nodes = Cardinality(nodes)
        /\ info.num_edges = Cardinality(DOMAIN graph.edata)
        /\ DOMAIN info.node_types \subseteq NodeTypes
        /\ \A t \in DOMAIN info.node_types :
             info.node_types[t] = Cardinality(OfType(t)) /\ info.node_types[t] > 0
        /\ SumOver(info.node_types) = info.num_nodes
        /\ SeqToSet(info.phases) = {graph.node[n]["phase"] : n \in phased}
        /\ \A i \in 1..(Len(info.phases) - 1) : info.phases[i] < info.phases[i + 1]
        /\ info.decision_points = Cardinality(OfType("decision"))
        /\ info.loops = Cardinality(OfType("loop"))

\* three nodes of two types, the first added with the higher phase, the
\* second with the lower one, the third with the lower one again, and an edge
C15_Witness ==
  /\ last.op = "get_graph_stats" /\ last.status = "ok"
  /\ Len(graph.keys) = 3
  /\ \A n \in DOMAIN graph.node : "phase" \in DOMAIN graph.node[n]
  /\ graph.node["a"]["phase"] = 1 /\ graph.node["b"]["phase"] = 0
  /\ graph.node["c"]["phase"] = 0
  /\ last.value.phases = <<0, 1>>
  /\ last.value.decision_points = 2 /\ last.value.loops = 1
  /\ last.value.num_edges = 2

\* C16: set_edge_condition on an existing edge succeeds; with null the edge
\* has no condition key afterwards, and nor has its get_edges record; with
\* a value the condition is that value; the edge's order and properties,
\* every other edge and every node stay as they were.
C16_SetEdgeCondition ==
  (last.op = "set_edge_condition"
     /\ <<last.args.from, last.args.to>> \in Edges(prev)) =>
    LET e == <<last.args.from, last.args.to>>
        c == last.args.condition
        old == prev.edata[e]
        new == graph.edata[e]
        records == get_edges(graph, None).value
    IN  /\ last.status = "ok"
        /\ (c = None) =>
             /\ "condition" \notin DOMAIN new
             /\ \A i \in DOMAIN records :
                  (records[i]["from"] = e[1] /\ records[i]["to"] = e[2]) =>
                    "condition" \notin DOMAIN records[i]
        /\ (c # None) => ("condition" \in DOMAIN new /\ new["condition"] = c[1])
        /\ SameField(old, new, "order") /\ SameField(old, new, "properties")
        /\ DOMAIN new \subseteq {"order", "properties", "condition"}
        /\ DOMAIN graph.edata = DOMAIN prev.edata
        /\ \A d \in (DOMAIN graph.edata) \ {e} : graph.edata[d] = prev.edata[d]
        /\ graph.succ = prev.succ /\ graph.pred = prev.pred
        /\ graph.node = prev.node /\ graph.keys = prev.keys

\* null given for an edge of order 1 that had a condition, beside another
\* edge that keeps its own
C16_Witness ==
  /\ last.op = "set_edge_condition" /\ last.status = "ok"
  /\ last.args.condition = None
  /\ LET e == <<last.args.from, last.args.to>>
     IN  /\ "condition" \in DOMAIN prev.edata[e]
         /\ graph.edata[e] = [order |-> 1, properties |-> [w |-> 1]]
         /\ \E d \in (DOMAIN graph.edata) \ {e} : "condition" \in DOMAIN graph.edata[d]

\* a value given for an edge that had no condition
C16_WitnessValue ==
  /\ last.op = "set_edge_condition" /\ last.status = "ok"
  /\ last.args.condition = Some("no")
  /\ "condition" \notin DOMAIN prev.edata[<<last.args.from, last.args.to>>]

\* the graph after add_node for the first k items of a bulk call
RECURSIVE AfterNodes(_, _, _)
AfterNodes(g, items, k) ==
  IF k = 0 THEN g
  ELSE LET n == items[k]
       IN  add_node(AfterNodes(g, items, k - 1), n.node_id, n.node_type, n.label,
                    n.phase, n.tool, n.properties).graph

\* the status of add_node for item k after the items before it
NodeItemStatus(g, items, k) ==
  LET n == items[k]
  IN  add_node(AfterNodes(g, items, k - 1), n.node_id, n.node_type, n.label,
               n.phase, n.tool, n.properties).status

\* the graph after add_edge for the first k items of a bulk call
RECURSIVE AfterEdges(_, _, _)
AfterEdges(g, items, k) ==
  IF k = 0 THEN g
  ELSE LET e == items[k]
       IN  add_edge(AfterEdges(g, items, k - 1), e.from, e.to, e.order, e.condition,
                    e.properties).graph

\* the status of add_edge for item k after the items before it
EdgeItemStatus(g, items, k) ==
  LET e == items[k]
  IN  add_edge(AfterEdges(g, items, k - 1), e.from, e.to, e.order, e.condition,
               e.properties).status

\* C19: a bulk call applies its items in input order up to the first one
\* that fails: the items before it stay applied, it and the later ones are
\* not applied, and the call reports its error; when no item fails, the
\* call returns one confirmation per item, in input order.
C19_BulkNotTransactional ==
  /\ (last.op = "bulk_add_nodes") =>
       LET items == last.args.nodes
           failing == {k \in DOMAIN items : NodeItemStatus(prev, items, k) # "ok"}
       IN  IF failing = {}
           THEN /\ last.status = "ok"
                /\ graph = AfterNodes(prev, items, Len(items))
                /\ Len(last.value.created) = Len(items)
                /\ \A k \in DOMAIN items :
                     /\ last.value.created[k]["node_id"] = items[k].node_id
                     /\ last.value.created[k]["status"] = "added"
           ELSE LET i == CHOOSE k \in failing : \A j \in failing : k <= j
                IN  /\ last.status = NodeItemStatus(prev, items, i)
                    /\ graph = AfterNodes(prev, items, i - 1)
                    /\ \A k \in 1..(i - 1) : items[k].node_id \in DOMAIN graph.node
                    /\ number_of_nodes(graph) = number_of_nodes(prev) + (i - 1)
  /\ (last.op = "bulk_add_edges") =>
       LET items == last.args.edges
           failing == {k \in DOMAIN items : EdgeItemStatus(prev, items, k) # "ok"}
       IN  IF failing = {}
           THEN /\ last.status = "ok"
                /\ graph = AfterEdges(prev, items, Len(items))
                /\ Len(last.value.created) = Len(items)
                /\ \A k \in DOMAIN items :
                     /\ last.value.created[k]["from"] = items[k].from
                     /\ last.value.created[k]["to"] = items[k].to
                     /\ last.value.created[k]["status"] = "added"
           ELSE LET i == CHOOSE k \in failing : \A j \in failing : k <= j
                IN  /\ last.status = EdgeItemStatus(prev, items, i)
                    /\ graph = AfterEdges(prev, items, i - 1)
                    /\ \A k \in 1..(i - 1) :
                         <<items[k].from, items[k].to>> \in Edges(graph)

\* the second node of a bulk call is a duplicate: the first one stays added
C19_Witness ==
  /\ last.op = "bulk_add_nodes" /\ last.status = "AlreadyExists"
  /\ Len(last.args.nodes) = 2
  /\ last.args.nodes[1].node_id \notin DOMAIN prev.node
  /\ last.args.nodes[1].node_id \in DOMAIN graph.node

\* the second edge of a bulk call has no source: the first one stays added
C19_WitnessEdges ==
  /\ last.op = "bulk_add_edges" /\ last.status = "NotFound"
  /\ Len(last.args.edges) = 2
  /\ <<last.args.edges[1].from, last.args.edges[1].to>> \in Edges(graph) \ Edges(prev)

\* the last call addressed a graph id
Addressed == "graph_id" \in DOMAIN last.args

\* what C18 says of create_state_graph and of delete_state_graph
CreateDeleteContract ==
  /\ (last.op = "create_state_graph" /\ Addressed) =>
       IF last.args.graph_id \in DOMAIN prev_graphs
       THEN last.status = "AlreadyExists" /\ graphs = prev_graphs
       ELSE /\ last.status = "ok"
            /\ graphs = DictSet(prev_graphs, last.args.graph_id, EmptyGraph)
  /\ (last.op = "delete_state_graph") =>
       /\ last.status = "ok"
       /\ DOMAIN graphs = (DOMAIN prev_graphs) \ {last.args.graph_id}
       /\ \A id \in DOMAIN graphs : graphs[id] = prev_graphs[id]

\* C18, as stated: create_state_graph on a registered id fails with
\* already-exists and leaves the registry as it was; delete_state_graph
\* succeeds, registered or not, and the id is absent afterwards; every
\* other call that addresses a graph id fails with not-found when the id
\* is not registered, and does not register it.
C18_RegistryContract ==
  /\ CreateDeleteContract
  /\ (/\ Addressed
      /\ last.op \notin {"create_state_graph", "delete_state_graph"}
      /\ last.args.graph_id \notin DOMAIN prev_graphs) =>
       last.status = "NotFound" /\ graphs = prev_graphs

\* C18, amended: the same of create_state_graph and delete_state_graph; every
\* tool that takes its graph from the registry lookup fails with not-found
\* on an id that is not registered and does not register it; import_graph
\* does no lookup and registers the id whenever it gets as far as reading
\* the file.
C18_RegistryContractExceptImport ==
  /\ CreateDeleteContract
  /\ (/\ Addressed
      /\ last.op \notin {"create_state_graph", "delete_state_graph", "import_graph"}
      /\ last.args.graph_id \notin DOMAIN prev_graphs) =>
       last.status = "NotFound" /\ graphs = prev_graphs
  /\ (last.op = "import_graph") =>
       IF last.status \in {"InvalidArgument", "OSError"} THEN graphs = prev_graphs
       ELSE /\ DOMAIN graphs = (DOMAIN prev_graphs) \cup {last.args.graph_id}
            /\ \A id \in (DOMAIN graphs) \ {last.args.graph_id} :
                 graphs[id] = prev_graphs[id]

\* create_state_graph on the id of a graph that holds a node and an edge,
\* while the other id is not registered
C18_Witness ==
  /\ last.op = "create_state_graph" /\ last.status = "AlreadyExists"
  /\ Edges(graphs[last.args.graph_id]) # {}
  /\ DOMAIN graphs = {last.args.graph_id}

\* delete_state_graph on an id that is not registered, beside a graph that is
C18_WitnessDeleteAbsent ==
  /\ last.op = "delete_state_graph" /\ last.status = "ok"
  /\ last.args.graph_id \notin DOMAIN prev_graphs
  /\ graphs # EmptyDict

\* a mutating tool on an id that was deleted
C18_WitnessNotFound ==
  /\ last.op = "add_node" /\ last.status = "NotFound"
  /\ last.args.graph_id \notin DOMAIN graphs
  /\ graphs # EmptyDict

\* one call made on its own
ApplyCall(g, call) ==
  IF call.op = "add_node"
  THEN add_node(g, call.node_id, call.node_type, None, None, None, None)
  ELSE remove_node(g, call.node_id)

\* the calls one after another from graph g: the graph at the end and the
\* status of each call
RECURSIVE Replay(_, _)
Replay(g, calls) ==
  IF calls = << >> THEN [graph |-> g, statuses |-> << >>]
  ELSE LET r == ApplyCall(g, Head(calls))
           rest == Replay(r.graph, Tail(calls))
       IN  [graph |-> rest.graph, statuses |-> <<r.status>> \o rest.statuses]

\* the ways of putting the threads' completed calls into one sequence that
\* keeps each thread's own order: o[i] is the thread whose call comes i-th
Orders ==
  LET n == SumOver([t \in Threads |-> Len(threads[t].done)])
  IN  {o \in [1..n -> Threads] :
         \A t \in Threads :
           Cardinality({i \in 1..n : o[i] = t}) = Len(threads[t].done)}

\* the i-th call of order o, with the status its thread got
Placed(o, i) ==
  threads[o[i]].done[Cardinality({j \in 1..i : o[j] = o[i]})]

\* C20: whenever no call is under way, some sequential order of the calls
\* completed so far, made one after another on the empty graph, gives every
\* call the status its thread got and ends with the graph as it is; two
\* add_node calls with distinct ids both succeed and leave both nodes, and
\* of two add_node calls with one id exactly one succeeds and the other
\* fails with already-exists.
C20_Linearized ==
  (\A t \in Threads : threads[t].pc = "idle") =>
    /\ \E o \in Orders :
         LET calls == [i \in DOMAIN o |-> Placed(o, i).call]
             r == Replay(EmptyGraph, calls)
         IN  /\ r.graph = graph
             /\ \A i \in DOMAIN o : r.statuses[i] = Placed(o, i).status
    /\ (\A t \in Threads : /\ Len(threads[t].done) = 1
                            /\ threads[t].done[1].call.op = "add_node") =>
         LET first == threads["t1"].done[1]
             second == threads["t2"].done[1]
         IN  IF first.call.node_id # second.call.node_id
             THEN /\ first.status = "ok" /\ second.status = "ok"
                  /\ DOMAIN graph.node = {first.call.node_id, second.call.node_id}
             ELSE /\ {first.status, second.status} = {"ok", "AlreadyExists"}
                  /\ DOMAIN graph.node = {first.call.node_id}

\* a thread called add_node while the other thread was inside add_node for
\* the same id: the other call succeeded, this one found the node
C20_Witness ==
  \E t \in Threads, u \in Threads :
    /\ t # u
    /\ threads[t].pc = "release" /\ threads[t].met
    /\ threads[t].call[1].op = "add_node"
    /\ threads[t].status = Some("AlreadyExists")
    /\ Len(threads[u].done) = 1 /\ threads[u].done[1].status = "ok"
    /\ threads[u].done[1].call = threads[t].call[1]

\* two calls with distinct ids that began while the lock was free or held,
\* both completed: both nodes are there
C20_WitnessDistinct ==
  /\ \A t \in Threads : threads[t].pc = "idle" /\ Len(threads[t].done) = 1
  /\ threads["t1"].done[1].call.op = "add_node"
  /\ threads["t2"].done[1].call.op = "add_node"
  /\ DOMAIN graph.node = {"a", "b"}

\* C21: a thread that is inside a method of one graph completes the call,
\* however long the other thread stays inside a method of another graph
\* holding that graph's lock: from every state in which t2 is inside a
\* method of a graph, t2 comes out of the method, unless t1 enters a method
\* of that same graph.
C21_DistinctGraphsNeverBlock ==
  \A graph_id \in GraphIds :
    Busy("t2", graph_id) ~> (threads["t2"].pc = "idle" \/ Busy("t1", graph_id))

\* t2 has made its write on one graph and is about to leave the method,
\* having begun it while t1 held the lock of the other graph, which t1
\* still holds
C21_Witness ==
  \E graph_id \in GraphIds, other \in GraphIds :
    /\ graph_id # other
    /\ Busy("t2", graph_id) /\ threads["t2"].pc = "release"
    /\ threads["t2"].met /\ threads["t2"].status = Some("ok")
    /\ locks[graph_id] = Some("t2")
    /\ Busy("t1", other) /\ locks[other] = Some("t1")

\* a graph id that no graph is registered under
FreshId == "fresh"

\* the same node ids in the same order, the same attributes of every node,
\* the same edges with the same attributes, and the same result of
\* get_execution_sequence from every node
SameGraph(g, h) ==
  /\ g.keys = h.keys
  /\ \A n \in DOMAIN g.node : g.node[n] = h.node[n]
  /\ Edges(g) = Edges(h)
  /\ \A e \in Edges(g) : g.edata[e] = h.edata[e]
  /\ \A n \in DOMAIN g.node, until_decision \in BOOLEAN :
       get_execution_sequence(g, n, until_decision).value =
         get_execution_sequence(h, n, until_decision).value

\* C22: when a graph has been exported, importing the file that was written
\* under a fresh graph id succeeds and registers a graph with the same node
\* ids, node attributes, edges, edge attributes and execution sequences as
\* the exported graph.
C22_ExportImportRoundTrip ==
  (last.op = "export_graph" /\ last.status = "ok") =>
    LET r == import_graph(graphs, FreshId, ReadFile(files, last.value.file_path))
    IN  /\ r.status = "ok"
        /\ SameGraph(graphs[last.args.graph_id], r.graphs[FreshId])

\* the value a record gives under key, or else under alt
Named(d, key, alt) == IF key \in DOMAIN d THEN Some(d[key]) ELSE Get(d, alt)

\* the last call was an import_graph that read a document from its file
Imported ==
  /\ last.op = "import_graph"
  /\ last.args.file.suffix \in {".yaml", ".yml", ".json"}
  /\ last.args.file.data # None

\* the ids of the node records of a document
FileNodeIds(data) == {data.nodes[i][1] : i \in DOMAIN data.nodes}

\* every node record names a node type there is, and both endpoints that
\* every edge record names are ids of node records
WellFormed(data) ==
  /\ \A i \in DOMAIN data.nodes :
       LET node_type == Named(data.nodes[i][2], "node_type", "type")
       IN  node_type = None \/ node_type[1] \in NodeTypes
  /\ \A i, j \in DOMAIN data.nodes : i # j => data.nodes[i][1] # data.nodes[j][1]
  /\ \A i \in DOMAIN data.edges :
       /\ Named(data.edges[i], "from", "parent") # None
       /\ Named(data.edges[i], "to", "child") # None
       /\ Named(data.edges[i], "from", "parent")[1] \in FileNodeIds(data)
       /\ Named(data.edges[i], "to", "child")[1] \in FileNodeIds(data)

\* C23: an import of a document whose records name valid node types and
\* endpoints that are node ids of the document, under either key naming,
\* succeeds; every node has the type that node_type or else type gives
\* (action when neither is there) and the label that label or else name
\* gives (its id when neither is there), and every edge record's edge goes
\* from the node that from or else parent names to the node that to or else
\* child names.
C23_ImportKeyNamings ==
  (Imported /\ WellFormed(last.args.file.data[1])) =>
    LET data == last.args.file.data[1]
        g == graphs[last.args.graph_id]
    IN  /\ last.status = "ok"
        /\ g.keys = [i \in DOMAIN data.nodes |-> data.nodes[i][1]]
        /\ \A i \in DOMAIN data.nodes :
             LET node_id == data.nodes[i][1]
                 node_type == Named(data.nodes[i][2], "node_type", "type")
                 label == Named(data.nodes[i][2], "label", "name")
             IN  /\ g.node[node_id].node_type =
                      (IF node_type = None THEN "action" ELSE node_type[1])
                 /\ g.node[node_id].label =
                      (IF label = None THEN node_id ELSE label[1])
        /\ Edges(g) = {<<Named(data.edges[i], "from", "parent")[1],
                         Named(data.edges[i], "to", "child")[1]>> :
                         i \in DOMAIN data.edges}

\* the line last read is a tools/call request
ToolsCallRead ==
  /\ server.line # None
  /\ server.line[1].json # None
  /\ server.line[1].json[1].type = "object"
  /\ DictGet(server.line[1].json[1].members, "method", "") = "tools/call"

\* C24: no line ends the serving loop other than the end of the input: the
\* loop never leaves through an exception, whatever the line holds; and
\* for every tools/call request exactly one response is written, with the
\* request's id and either a result or an error with a code and a message.
C24_ServingLoopSurvives ==
  /\ server.pc # "crashed"
  /\ ToolsCallRead =>
       /\ Len(server.written) = 1
       /\ server.written[1].id = Get(server.line[1].json[1].members, "id")
       /\ \/ DOMAIN server.written[1] = {"jsonrpc", "id", "result"}
          \/ /\ DOMAIN server.written[1] = {"jsonrpc", "id", "error"}
             /\ DOMAIN server.written[1].error = {"code", "message"}

\* C25: a call of update_node, remove_node, get_node or get_node_edges on
\* a node that is not there, of get_edges with a filter node that is not
\* there, of remove_edge, set_edge_order or set_edge_condition on an edge
\* that is not there (whether or not its endpoints are), of add_node with a
\* node type that is not valid, and of find_path or get_execution_sequence
\* on a node that is not there fails; and whenever one of these tools
\* fails, the graph is as the call found it: the same nodes in the same
\* order, the same attributes, the same edges in the same order.
C25_FailureLeavesGraph ==
  /\ (/\ last.op \in {"update_node", "remove_node", "get_node", "get_node_edges"}
      /\ ~HasNode(prev, last.args.node_id)) => last.status = "NotFound"
  /\ (/\ last.op = "get_edges"
      /\ last.args.node_id # None
      /\ ~HasNode(prev, last.args.node_id[1])) => last.status = "NotFound"
  /\ (/\ last.op \in {"remove_edge", "set_edge_order", "set_edge_condition"}
      /\ ~has_edge(prev, last.args.from, last.args.to)) => last.status = "NotFound"
  /\ (/\ last.op = "add_node"
      /\ last.args.node_type \notin NodeTypes) =>
       last.status \in {"InvalidArgument", "AlreadyExists"}
  /\ (/\ last.op = "find_path"
      /\ ~(HasNode(prev, last.args.from) /\ HasNode(prev, last.args.to))) =>
       last.status = "NotFound"
  /\ (/\ last.op = "get_execution_sequence"
      /\ ~HasNode(prev, last.args.from)) => last.status = "NotFound"
  /\ (/\ last.op \in {"update_node", "remove_node", "get_node", "get_node_edges",
                      "get_edges", "remove_edge", "set_edge_order",
                      "set_edge_condition", "add_node", "find_path",
                      "get_execution_sequence"}
      /\ last.status # "ok") => graph = prev

\* set_edge_order failed on an edge that is not there between two nodes
\* that are, in a graph that has another edge
C25_Witness ==
  /\ last.op = "set_edge_order" /\ last.status = "NotFound"
  /\ HasNode(graph, last.args.from) /\ HasNode(graph, last.args.to)
  /\ last.args.from # last.args.to
  /\ Edges(graph) # {}

\* add_node failed for its node type on a graph that holds a node
C25_WitnessInvalidType ==
  /\ last.op = "add_node" /\ last.status = "InvalidArgument"
  /\ graph.keys # << >>

\* the document with only its first k records, the node records counted
\* before the edge records
FirstRecords(data, k) ==
  [nodes |-> SubSeq(data.nodes, 1, IF k < Len(data.nodes) THEN k
                                   ELSE Len(data.nodes)),
   edges |-> SubSeq(data.edges, 1, IF k < Len(data.nodes) THEN 0
                                   ELSE k - Len(data.nodes))]

\* what importing the first k records of data into an empty registry gives
ImportOfFirst(data, k) ==
  import_graph(EmptyDict, "g", [suffix |-> ".json", data |-> Some(FirstRecords(data, k))])

\* C26: after an import_graph that read its document, graph_id is
\* registered whether or not it was before and whatever the call's status,
\* and the other ids are as they were.  When the call succeeded, the graph
\* under graph_id is the graph of the document alone, with nothing of the
\* graph registered there before.  When the call failed, for some k the
\* first k records import without error, the graph under graph_id is
\* exactly their graph, and record k + 1 is one that fails after them.
C26_ImportRegistersFirst ==
  Imported =>
    LET data == last.args.file.data[1]
        graph_id == last.args.graph_id
        count == Len(data.nodes) + Len(data.edges)
    IN  /\ DOMAIN graphs = (DOMAIN prev_graphs) \cup {graph_id}
        /\ \A id \in (DOMAIN graphs) \ {graph_id} : graphs[id] = prev_graphs[id]
        /\ last.status = "ok" =>
             /\ ImportOfFirst(data, count).status = "ok"
             /\ graphs[graph_id] = ImportOfFirst(data, count).graphs["g"]
        /\ last.status # "ok" =>
             \E k \in 0..(count - 1) :
               /\ ImportOfFirst(data, k).status = "ok"
               /\ graphs[graph_id] = ImportOfFirst(data, k).graphs["g"]
               /\ graphs[graph_id].keys =
                    [i \in DOMAIN FirstRecords(data, k).nodes |-> data.nodes[i][1]]
               /\ number_of_edges(graphs[graph_id]) =
                    Len(FirstRecords(data, k).edges)
               /\ ImportOfFirst(data, k + 1).status = last.status

\* an import under an id that was registered failed at its second edge
\* record: the graph that was there is replaced by the two nodes and the
\* one edge before the failing record
C26_Witness ==
  /\ Imported /\ last.status = "NotFound"
  /\ last.args.graph_id \in DOMAIN prev_graphs
  /\ prev_graphs[last.args.graph_id] # graphs[last.args.graph_id]
  /\ number_of_nodes(graphs[last.args.graph_id]) = 2
  /\ number_of_edges(graphs[last.args.graph_id]) = 1
  /\ Len(last.args.file.data[1].edges) = 3

\* an import under an id that was not registered failed at its second node
\* record: the id is registered with the first node alone
C26_WitnessFresh ==
  /\ Imported /\ last.status = "InvalidArgument"
  /\ last.args.graph_id \notin DOMAIN prev_graphs
  /\ graphs[last.args.graph_id].keys = <<"a">>

\* C27: the record a successful get_node returns has the node's stored
\* attributes and its node_id: it is the record list_nodes gives for the
\* node, and the first record of get_execution_sequence from the node.
C27_GetNodeRecord ==
  (last.op = "get_node" /\ last.status = "ok") =>
    LET node_id == last.args.node_id
    IN  /\ "node_id" \in DOMAIN last.value
        /\ \A k \in DOMAIN graph.node[node_id] : k \in DOMAIN last.value
        /\ \E i \in DOMAIN list_nodes(graph).value :
             list_nodes(graph).value[i] = last.value
        /\ get_execution_sequence(graph, node_id, TRUE).value[1] = last.value

\* s is the beginning of t
IsPrefix(s, t) == Len(s) <= Len(t) /\ s = SubSeq(t, 1, Len(s))

\* C28: in every state and from every node of the graph, the sequence of
\* get_execution_sequence with until_decision true is the beginning of the
\* sequence with until_decision false, and the two are equal exactly when
\* no node of the latter other than its last is a decision node.
C28_UntilDecisionPrefix ==
  \A n \in DOMAIN graph.node :
    LET stopped == get_execution_sequence(graph, n, TRUE).value
        whole == get_execution_sequence(graph, n, FALSE).value
    IN  /\ IsPrefix(stopped, whole)
        /\ (stopped = whole) <=>
             (\A i \in 1..(Len(whole) - 1) :
                DictGet(whole[i], "node_type", "") # "decision")

\* get_execution_sequence with until_decision true has just returned a
\* sequence that ends on a decision node and is shorter than the walk
\* without the flag
C28_Witness ==
  /\ last.op = "get_execution_sequence" /\ last.status = "ok"
  /\ last.args.until_decision
  /\ Len(last.value) >= 2
  /\ last.value[Len(last.value)].node_type = "decision"
  /\ Len(last.value) <
       Len(get_execution_sequence(graph, last.args.from, FALSE).value)

\* the walk without the flag ends on a decision node, and the walk with
\* the flag is the same
C28_WitnessEqual ==
  /\ last.op = "get_execution_sequence" /\ last.status = "ok"
  /\ last.args.until_decision
  /\ Len(last.value) >= 2
  /\ last.value[Len(last.value)].node_type = "decision"
  /\ last.value = get_execution_sequence(graph, last.args.from, FALSE).value

\* the tools that are queries
QueryTools ==
  {"get_node", "list_nodes", "get_edges", "get_node_edges", "get_graph_stats",
   "validate_graph", "find_path", "get_execution_sequence"}

\* every query of SpecFrame, as a tool name with its arguments
QueryRequests ==
  [name : {"get_node", "get_node_edges"}, args : [node_id : NodeIds]]
    \cup [name : {"list_nodes", "get_graph_stats", "validate_graph"}, args : {NoArgs}]
    \cup [name : {"get_edges"},
          args : [node_id : {None} \cup {Some(n) : n \in NodeIds}]]
    \cup [name : {"find_path"}, args : [from : NodeIds, to : NodeIds]]
    \cup [name : {"get_execution_sequence"},
          args : [from : NodeIds, until_decision : BOOLEAN]]

\* the mutations of SpecFrame, as tool names with their arguments
MutationRequests ==
  [name : {"add_node"},
   args : [node_id : NodeIds, node_type : {"action"}, label : {None},
           phase : {None}, tool : {None}, properties : {None}]]
    \cup [name : {"remove_node"}, args : [node_id : NodeIds]]
    \cup [name : {"add_edge"},
          args : [from : NodeIds, to : NodeIds, order : {0}, condition : {None},
                  properties : {None}]]
    \cup [name : {"remove_edge"}, args : [from : NodeIds, to : NodeIds]]
    \cup [name : {"set_edge_order"}, args : [from : NodeIds, to : NodeIds, order : {1}]]

\* C29: in every state, whichever query is made with whatever arguments,
\* and whether it succeeds or fails, it leaves the graph exactly as it
\* found it: the nodes and their order, the attributes, the edges and their
\* order.  And when a query has just been made, every operation made next,
\* query or mutation, returns what it would have returned before the query
\* and leaves the graph it would have left; so any number of queries
\* change no later result.
C29_QueriesReadOnly ==
  /\ \A q \in QueryRequests : Method(q.name, q.args, graph).graph = graph
  /\ last.op \in QueryTools =>
       /\ graph = prev
       /\ \A o \in QueryRequests \cup MutationRequests :
            Method(o.name, o.args, graph) = Method(o.name, o.args, prev)

\* get_edges without a filter has just returned the two edges of the graph
C29_Witness ==
  /\ last.op = "get_edges" /\ last.status = "ok"
  /\ last.args.node_id = None
  /\ Len(last.value) = 2

\* get_node has just returned the attributes of a node with an edge
C29_WitnessGetNode ==
  /\ last.op = "get_node" /\ last.status = "ok"
  /\ graph.succ[last.args.node_id] # << >>

\* C30: the record an export has written, whatever was done to the graph
\* while it ran, has both endpoints of every edge among the keys of its
\* nodes mapping, and is the record of one of the graphs there were between
\* the beginning and the end of the export.
C30_ExportIsSnapshot ==
  (export.pc = "written") =>
    /\ \A i \in DOMAIN export.edges :
         /\ export.edges[i]["from"] \in {export.nodes[j][1] : j \in DOMAIN export.nodes}
         /\ export.edges[i]["to"] \in {export.nodes[j][1] : j \in DOMAIN export.nodes}
    /\ \E g \in export.seen :
         /\ export.nodes = Dump(ExportData(g, "g")).nodes
         /\ export.edges = Dump(ExportData(g, "g")).edges

====
